---- MODULE Spec2Model ----
(***************************************************************************)
(* Model of zaphar/win-utils: the PDH wrapper (winapi-perf-wrapper), the   *)
(* perf-util path walk and the win-prom-node-exporter service.             *)
(*                                                                         *)
(* Several state machines share this module, each with its own variables: *)
(*   Spec           the exporter service: the responder thread, the        *)
(*                  collector thread, the service control handler and the  *)
(*                  scope join (win-prom-node-exporter/src/main.rs);       *)
(*   CollectorSpec  its collector thread alone, fairly scheduled;          *)
(*   ServeSpec      the responder serving the registry while the collector *)
(*                  writes it (main.rs);                                   *)
(*   BindingSpec    parse_instance, register_pairs,                        *)
(*                  register_wildcard_pairs and the failure reports of the *)
(*                  setup (binding.rs, main.rs);                           *)
(*   StreamModeSpec perf-util --stream (perf-util/src/main.rs);            *)
(*   CodecSpec      null_separated_to_vec applied to bounded u16 buffers;  *)
(*   CatalogSpec    PDH::enumerate_counters walking the listed objects;    *)
(*   EnumSpec       the size-probing enumerations, call by call;           *)
(*   QuerySpec      queries, counters and their handles;                   *)
(*   StreamSpec     one CounterStream and the time                         *)
(*                  (winapi-perf-wrapper/src/lib.rs).                      *)
(*                                                                         *)
(* Conventions: Option<T> is a sequence of length <= 1 (None = <<>>,       *)
(* Some(x) = <<x>>); Result<T, PDHStatus> is Ok(v) or Err(status); a       *)
(* Vec<u16> is a sequence of code units; a String is a sequence of code    *)
(* points.  PDHStatus values are u32 codes above 2^31 that are only ever   *)
(* compared for equality, so each is modelled by the name of its constant. *)
(***************************************************************************)
EXTENDS Integers, Sequences, FiniteSets, TLC

---------------------------------------------------------------------------
(* Bounds of the model *)

\* Number of configured counter streams of the collector (the service
\* configures nine; they are all handled alike, one after the other).
NumStreams == 3
\* Largest buffer length (in code units) a size probe reports.
MaxProbeLen == 3
\* Longest delay a stream is configured with, and the last instant of the
\* time line, both in units of the shortest delay.
MaxDelay == 2
MaxClock == 5
\* Longest u16 buffer handed to the decoder.
MaxBufLen == 4
\* Most strings, and longest string, of a multi-string the subsystem writes.
MaxStrings == 3
MaxStrLen == 2
\* Most objects the subsystem lists in one enumeration.
MaxObjects == 2
\* Longest path text handed to parse_instance.
MaxPathLen == 6
\* Most concrete paths the expansion of a wildcard path delivers.
MaxExpanded == 2
\* Most reads perf-util --stream is followed for.
MaxReads == 4
\* Number of gauges in the registry the responder serves (the service has
\* nine, all alike).
NumGauges == 2
\* pairs handed to register_pairs
MaxPairs == 3
\* Most units the subsystem reads past the end of an unterminated machine name.
MaxOverrun == 1

---------------------------------------------------------------------------
(* PDH status codes (constants.rs, winerror.h) *)

ERROR_SUCCESS == "ERROR_SUCCESS"
PDH_MORE_DATA == "PDH_MORE_DATA"
PDH_CSTATUS_NO_OBJECT == "PDH_CSTATUS_NO_OBJECT"
PDH_CSTATUS_BAD_COUNTERNAME == "PDH_CSTATUS_BAD_COUNTERNAME"
PDH_CSTATUS_NO_COUNTER == "PDH_CSTATUS_NO_COUNTER"
PDH_INVALID_ARGUMENT == "PDH_INVALID_ARGUMENT"
PDH_INVALID_DATA == "PDH_INVALID_DATA"
PDH_INVALID_HANDLE == "PDH_INVALID_HANDLE"
\* pdhmsg.h: the query holds no data to return
PDH_NO_DATA == "PDH_NO_DATA"

Ok(v) == [tag |-> "Ok", val |-> v]
Err(s) == [tag |-> "Err", status |-> s]
IsOk(r) == r.tag = "Ok"

None == <<>>
Some(x) == <<x>>

---------------------------------------------------------------------------
VARIABLES
    \* ---- exporter service (main.rs) ----
    mainpc,         \* win_service_wrapper: "scope" while thread::scope waits, "panicked" after the join unwrapped an Err
    rpc,            \* responder thread: "bind", "recv", "handle", "panicked"
    connPending,    \* an incoming connection is waiting for server.recv()
    cpc,            \* collector thread: "open", "add", "poll", "sleep", "panicked"
    cidx,           \* index of the stream the collector sets up or polls next
    queryOpen,      \* the collector's PdhQuery holds an open query handle
    attached,       \* streams whose counter is attached to the query
    registry,       \* gauge value per stream: None until the first set
    pathStatus,     \* the subsystem's verdict on each configured path: "ok", "invalid", "noattach"
    stopRequested,  \* the service manager has delivered ServiceControl::Stop
    handlerResult,  \* last value returned by service_event_handler
    tickStart,      \* history: the registry when the current tick began
    tickRes,        \* history: the results of next() in the current tick, in poll order
    nextCalled,     \* history: some stream's next() has been called
    \* ---- multi-string decoder (lib.rs) ----
    strings,        \* Some(xs) when the subsystem wrote the multi-string of xs into buf, None for a raw buffer
    buf,            \* the Vec<u16> handed to null_separated_to_vec
    decoded,        \* what it returned
    decpc,          \* "ready" before the call, "returned" after it
    \* ---- catalog walk (lib.rs) ----
    machine_name,   \* PDH.machine_name: Option<Vec<u16>>
    wpc,            \* enumerate_counters: "start", "walk", "returned"
    objList,        \* the objects enumerate_objects_utf16 returned
    widx,           \* index in objList of the object visited next
    walkLog,        \* history: the result of enumerate_items_utf16 for each visited object
    itemBufs,       \* history: for each visited object, Some of the two lists the fill call wrote, None when the enumeration failed
    machineArgs,    \* history: the primitive and the szMachineName argument of each enumeration call made
    counter_path_vec,  \* the paths pushed so far
    walkResult,     \* None while running, Some(Ok(paths)) or Some(Err(status))
    \* ---- size-probing enumerations (lib.rs) ----
    eop,            \* the operation running: "objects", "items", "expand"
    epc,            \* "probe" before the first call, "fill" before the second, "returned"
    enumStatus,     \* the local `status`: what the last subsystem call answered
    buffer_length,  \* the length cells handed to the subsystem, as it last left them
    pdhCalls,       \* history: the subsystem calls issued, in order
    enumResult,     \* None while running, Some(Ok(..)) or Some(Err(status))
    \* ---- queries, counters and their handles (lib.rs) ----
    queries,        \* per PdhQuery value: "none" (not created), "open" (alive), "closed" (dropped)
    handle,         \* per PdhQuery value: the HQuery it holds (field 0): "NULL" or the name of an opened handle
    heldCounters,   \* per PdhCounter value: where it is held, the query it was attached to, whether it has data
    closeCount,     \* history: PdhCloseQuery calls issued on each query's handle
    removeCount,    \* history: PdhRemoveCounter calls issued on each counter's handle
    qryOp,          \* history: the last library operation, the subsystem calls it issued, its result
    \* ---- one value stream and the time (lib.rs) ----
    valueType,      \* the stream's ValueType: "i32", "i64" or "f64"
    collect_delay,  \* CounterStream.collect_delay: Option<Duration>
    clock,          \* the time, in units of the shortest delay
    lastNext,       \* history: the last next() call: what it did, when it returned, what it returned
    prevNext,       \* history: the next() call before that one
    \* ---- gauge bindings (binding.rs) and failure reports ----
    bop,            \* the function called: "parse_instance", "register_wildcard_pairs", "setup", "register_pairs"
    barg,           \* its arguments, with the answers the subsystem will give
    breg,           \* the prometheus Registry: the descriptors registered, in order
    bres,           \* None before the call, Some(what it returned or reported) after it
    bcalls,         \* history: the subsystem calls register_pairs caused, in order
    \* ---- perf-util --stream (perf-util/src/main.rs) ----
    upc,            \* "first" before the discarded read, "loop" in the loop
    ureads,         \* history: what each iterator.next() returned, in order
    uout,           \* the lines written so far, each with its channel
    \* ---- serving the registry (main.rs) ----
    gauges,         \* per gauge the value of its one child: None until the first set
    returned,       \* history: per gauge the values its stream's next() returned in an Ok
    pdhUsers,       \* history: the threads that called into the query or a stream
    kpc,            \* collector thread: "poll" or "sleep"
    kidx,           \* index of the stream the collector polls next
    kval,           \* Some(v) while the collector holds the v of an Ok(v) it has not stored yet
    hpc,            \* responder thread: "recv", "gather", "encode", "respond", "panicked"
    request,        \* the request being handled: None or Some([method, path])
    metric_families,  \* what registry.gather() has read so far for the request
    response,       \* None, or Some(response) for the response last handed to req.respond
    errlog          \* the messages written with error!(..)

svcVars == <<mainpc, rpc, connPending, cpc, cidx, queryOpen, attached, registry,
             pathStatus, stopRequested, handlerResult, tickStart, tickRes, nextCalled>>
codecVars == <<strings, buf, decoded, decpc>>
catVars == <<machine_name, wpc, objList, widx, walkLog, itemBufs, machineArgs,
            counter_path_vec, walkResult>>
enumVars == <<eop, epc, enumStatus, buffer_length, pdhCalls, enumResult>>
qryVars == <<queries, handle, heldCounters, closeCount, removeCount, qryOp>>
strmVars == <<valueType, collect_delay, clock, lastNext, prevNext>>
bindVars == <<bop, barg, breg, bres, bcalls>>
utilVars == <<upc, ureads, uout>>
httpVars == <<gauges, returned, pdhUsers, kpc, kidx, kval, hpc, request, metric_families,
              response, errlog>>
vars == <<svcVars, codecVars, catVars, enumVars, qryVars, strmVars, bindVars, utilVars,
          httpVars>>

---------------------------------------------------------------------------
(* The exporter service: win_service_wrapper                               *)

Streams == 1..NumStreams
\* Values a counter read can deliver (two, so that a write is visible).
Values == {1, 2}
PathVerdicts == {"ok", "invalid", "noattach"}

SvcInit ==
    /\ mainpc = "scope"
    /\ rpc = "bind"
    /\ connPending = FALSE
    /\ cpc = "open"
    /\ cidx = 1
    /\ queryOpen = FALSE
    /\ attached = {}
    /\ registry = [i \in Streams |-> None]
    /\ pathStatus \in [Streams -> PathVerdicts]
    /\ stopRequested = FALSE
    /\ handlerResult = "none"
    /\ tickStart = [i \in Streams |-> None]
    /\ tickRes = <<>>
    /\ nextCalled = FALSE

CodecIdle ==
    /\ strings = None
    /\ buf = <<>>
    /\ decoded = <<>>
    /\ decpc = "idle"

CatalogIdle ==
    /\ machine_name = None
    /\ wpc = "idle"
    /\ objList = <<>>
    /\ widx = 1
    /\ walkLog = <<>>
    /\ itemBufs = <<>>
    /\ machineArgs = <<>>
    /\ counter_path_vec = <<>>
    /\ walkResult = None

EnumIdle ==
    /\ eop = "none"
    /\ epc = "idle"
    /\ enumStatus = ERROR_SUCCESS
    /\ buffer_length = <<>>
    /\ pdhCalls = <<>>
    /\ enumResult = None

\* The values a client can hold: two queries, two counters.
QueryIds == {"A", "B"}
CounterIds == {"a", "b"}

NoCounter == [state |-> "none", attachedTo |-> "-", streamOf |-> "-", sampled |-> FALSE]
NoOp == [op |-> "none", q |-> "-", h |-> "-", c |-> "-", calls |-> <<>>, result |-> None,
         dead |-> {}]

QueryIdle ==
    /\ queries = [q \in QueryIds |-> "none"]
    /\ handle = [q \in QueryIds |-> "NULL"]
    /\ heldCounters = [c \in CounterIds |-> NoCounter]
    /\ closeCount = [q \in QueryIds |-> 0]
    /\ removeCount = [c \in CounterIds |-> 0]
    /\ qryOp = NoOp

StreamIdle ==
    /\ valueType = "none"
    /\ collect_delay = None
    /\ clock = 0
    /\ lastNext = None
    /\ prevNext = None

BindingIdle ==
    /\ bop = "none"
    /\ barg = <<>>
    /\ breg = <<>>
    /\ bres = None
    /\ bcalls = <<>>

StreamModeIdle ==
    /\ upc = "idle"
    /\ ureads = <<>>
    /\ uout = <<>>

ServeIdle ==
    /\ gauges = <<>>
    /\ returned = <<>>
    /\ pdhUsers = {}
    /\ kpc = "idle"
    /\ kidx = 1
    /\ kval = None
    /\ hpc = "idle"
    /\ request = None
    /\ metric_families = <<>>
    /\ response = None
    /\ errlog = <<>>

Init ==
    /\ SvcInit
    /\ CodecIdle
    /\ CatalogIdle
    /\ EnumIdle
    /\ QueryIdle
    /\ StreamIdle
    /\ BindingIdle
    /\ StreamModeIdle
    /\ ServeIdle

\* ---- service control handler ----

\* service_event_handler: Interrogate is answered, every other control
\* event (Stop included) is reported as not implemented; nothing is stored.
service_event_handler(control_event) ==
    IF control_event = "Interrogate" THEN "NoError" ELSE "NotImplemented"

ServiceControl ==
    \E ev \in {"Interrogate", "Stop"} :
        /\ mainpc = "scope"
        /\ handlerResult' = service_event_handler(ev)
        /\ stopRequested' = (stopRequested \/ ev = "Stop")
        /\ UNCHANGED <<mainpc, rpc, connPending, cpc, cidx, queryOpen, attached, registry,
                       pathStatus, tickStart, tickRes, nextCalled>>
        /\ UNCHANGED <<codecVars, catVars, enumVars, qryVars, strmVars,
                   bindVars, utilVars, httpVars>>

\* ---- responder thread ----

\* tiny_http::Server::http(listen_host).unwrap()
ResponderBind ==
    /\ rpc = "bind"
    /\ \E bound \in BOOLEAN : rpc' = IF bound THEN "recv" ELSE "panicked"
    /\ UNCHANGED <<mainpc, connPending, cpc, cidx, queryOpen, attached, registry,
                   pathStatus, stopRequested, handlerResult, tickStart, tickRes, nextCalled>>
    /\ UNCHANGED <<codecVars, catVars, enumVars, qryVars, strmVars,
                   bindVars, utilVars, httpVars>>

\* A client connects to the listening socket.
ClientConnect ==
    /\ rpc \in {"recv", "handle"}
    /\ ~connPending
    /\ connPending' = TRUE
    /\ UNCHANGED <<mainpc, rpc, cpc, cidx, queryOpen, attached, registry,
                   pathStatus, stopRequested, handlerResult, tickStart, tickRes, nextCalled>>
    /\ UNCHANGED <<codecVars, catVars, enumVars, qryVars, strmVars,
                   bindVars, utilVars, httpVars>>

\* server.recv() returns only when a connection came in: Ok(req) leads to
\* the handler, Err(e) is logged and the loop starts over.
ResponderRecv ==
    /\ rpc = "recv"
    /\ connPending
    /\ connPending' = FALSE
    /\ \E good \in BOOLEAN : rpc' = IF good THEN "handle" ELSE "recv"
    /\ UNCHANGED <<mainpc, cpc, cidx, queryOpen, attached, registry,
                   pathStatus, stopRequested, handlerResult, tickStart, tickRes, nextCalled>>
    /\ UNCHANGED <<codecVars, catVars, enumVars, qryVars, strmVars,
                   bindVars, utilVars, httpVars>>

\* registry.gather(), encoder.encode(..).unwrap(), req.respond(..): a failed
\* encode panics the thread, a failed respond is logged.
ResponderHandle ==
    /\ rpc = "handle"
    /\ \E encoded \in BOOLEAN : rpc' = IF encoded THEN "recv" ELSE "panicked"
    /\ UNCHANGED <<mainpc, connPending, cpc, cidx, queryOpen, attached, registry,
                   pathStatus, stopRequested, handlerResult, tickStart, tickRes, nextCalled>>
    /\ UNCHANGED <<codecVars, catVars, enumVars, qryVars, strmVars,
                   bindVars, utilVars, httpVars>>

\* ---- collector thread ----

\* PDH::open_query: the query is returned only when PdhOpenQueryW succeeded.
open_query(status) ==
    IF status # ERROR_SUCCESS THEN Err(status) ELSE Ok("query")

\* PdhQuery::add_counter_utf16: PdhValidatePathW first, PdhAddCounterW only
\* after it succeeded; a counter only when both succeeded.
add_counter_utf16(validateStatus, addStatus) ==
    IF validateStatus # ERROR_SUCCESS THEN Err(validateStatus)
    ELSE IF addStatus # ERROR_SUCCESS THEN Err(addStatus)
    ELSE Ok("counter")

\* The statuses the subsystem answers with for configured path i.
ValidateStatusOf(i) ==
    IF pathStatus[i] = "invalid" THEN PDH_CSTATUS_BAD_COUNTERNAME ELSE ERROR_SUCCESS
AddStatusOf(i) ==
    IF pathStatus[i] = "noattach" THEN PDH_CSTATUS_NO_COUNTER ELSE ERROR_SUCCESS

\* PdhQuery::collect_data: PdhCollectQueryData, then (only after success)
\* PdhGetFormattedCounterValue; the value only when both succeeded.
CollectAlwaysFails(collectStatus, formatStatus, value) ==
    IF collectStatus # ERROR_SUCCESS THEN Err(collectStatus) ELSE Err(PDH_INVALID_DATA)

collect_data(collectStatus, formatStatus, value) ==
    IF collectStatus # ERROR_SUCCESS THEN Err(collectStatus)
    ELSE IF formatStatus # ERROR_SUCCESS THEN Err(formatStatus)
    ELSE Ok(value)

\* let query = pdh.open_query().unwrap();
CollectorOpen ==
    /\ cpc = "open"
    /\ \E st \in {ERROR_SUCCESS, PDH_INVALID_ARGUMENT} :
         LET r == open_query(st) IN
         /\ queryOpen' = IsOk(r)
         /\ cpc' = IF IsOk(r) THEN "add" ELSE "panicked"
    /\ UNCHANGED <<mainpc, rpc, connPending, cidx, attached, registry,
                   pathStatus, stopRequested, handlerResult, tickStart, tickRes, nextCalled>>
    /\ UNCHANGED <<codecVars, catVars, enumVars, qryVars, strmVars,
                   bindVars, utilVars, httpVars>>

\* Where the collector goes after get_value_stream(..).unwrap() for path i:
\* on to the next path, into the collection loop after the last one, and
\* out of the thread by panic on an Err.
SetupSkipFailed(i, r) ==
    IF i < NumStreams THEN [pc |-> "add", idx |-> i + 1] ELSE [pc |-> "poll", idx |-> 1]
AfterAdd(i, r) ==
    IF ~IsOk(r) THEN [pc |-> "panicked", idx |-> i]
    ELSE IF i < NumStreams THEN [pc |-> "add", idx |-> i + 1]
    ELSE [pc |-> "poll", idx |-> 1]

\* let s = get_value_stream::<f64>(&query, PATH).unwrap();  A panic unwinds
\* the thread: the streams made so far are dropped (PdhRemoveCounter) and
\* then the query (PdhCloseQuery).
CollectorAdd ==
    /\ cpc = "add"
    /\ LET r == add_counter_utf16(ValidateStatusOf(cidx), AddStatusOf(cidx))
           nxt == AfterAdd(cidx, r)
       IN
       /\ cpc' = nxt.pc
       /\ cidx' = nxt.idx
       /\ attached' = IF nxt.pc = "panicked" THEN {}
                      ELSE IF IsOk(r) THEN attached \cup {cidx} ELSE attached
       /\ queryOpen' = (nxt.pc # "panicked")
       /\ tickStart' = registry
       /\ tickRes' = <<>>
    /\ UNCHANGED <<mainpc, rpc, connPending, registry,
                   pathStatus, stopRequested, handlerResult, nextCalled>>
    /\ UNCHANGED <<codecVars, catVars, enumVars, qryVars, strmVars,
                   bindVars, utilVars, httpVars>>

\* if let Ok(v) = stream.next() { gauge.with(..).set(v) }
SetGaugeOrZero(reg, i, r) ==
    [reg EXCEPT ![i] = IF IsOk(r) THEN Some(r.val) ELSE Some(0)]
SetOtherGauge(reg, i, r) ==
    IF IsOk(r) THEN [reg EXCEPT ![CHOOSE j \in DOMAIN reg : j # i] = Some(r.val)] ELSE reg
SetGauge(reg, i, r) ==
    IF IsOk(r) THEN [reg EXCEPT ![i] = Some(r.val)] ELSE reg

\* Where the collector goes after handling stream i of a tick, whatever
\* next() returned: the next stream, or the sleep after the last one.
EndTickOnFailure(i, r) ==
    IF i < NumStreams /\ IsOk(r) THEN [pc |-> "poll", idx |-> i + 1]
    ELSE [pc |-> "sleep", idx |-> 1]
AfterPoll(i, r) ==
    IF i < NumStreams THEN [pc |-> "poll", idx |-> i + 1] ELSE [pc |-> "sleep", idx |-> 1]

\* One stream of a tick: CounterStream::next (no delay is configured by the
\* service) calls collect_double_data, and the gauge is set on Ok.
\* Nothing in this specification reads the registry, so gauge.with(..) and
\* .set(v) are taken as one step here; ServeSpec, where the responder
\* gathers concurrently, takes them apart.
CollectorPoll ==
    /\ cpc = "poll"
    /\ \E cs \in {ERROR_SUCCESS, PDH_INVALID_DATA},
          fs \in {ERROR_SUCCESS, PDH_INVALID_DATA},
          v \in Values :
         LET r == collect_data(cs, fs, v)
             nxt == AfterPoll(cidx, r)
         IN
         /\ registry' = SetGauge(registry, cidx, r)
         /\ tickRes' = Append(tickRes, r)
         /\ cpc' = nxt.pc
         /\ cidx' = nxt.idx
    /\ nextCalled' = TRUE
    /\ UNCHANGED <<mainpc, rpc, connPending, queryOpen, attached,
                   pathStatus, stopRequested, handlerResult, tickStart>>
    /\ UNCHANGED <<codecVars, catVars, enumVars, qryVars, strmVars,
                   bindVars, utilVars, httpVars>>

\* std::thread::sleep(delay_secs) returns and the loop starts the next tick.
CollectorWake ==
    /\ cpc = "sleep"
    /\ cpc' = "poll"
    /\ cidx' = 1
    /\ tickStart' = registry
    /\ tickRes' = <<>>
    /\ UNCHANGED <<mainpc, rpc, connPending, queryOpen, attached, registry,
                   pathStatus, stopRequested, handlerResult, nextCalled>>
    /\ UNCHANGED <<codecVars, catVars, enumVars, qryVars, strmVars,
                   bindVars, utilVars, httpVars>>

\* thread::scope(..) returns once both threads have ended; both loops are
\* endless, so a thread ends only by panic and the scope's Err is unwrapped.
ScopeJoin ==
    /\ mainpc = "scope"
    /\ rpc = "panicked"
    /\ cpc = "panicked"
    /\ mainpc' = "panicked"
    /\ UNCHANGED <<rpc, connPending, cpc, cidx, queryOpen, attached, registry,
                   pathStatus, stopRequested, handlerResult, tickStart, tickRes, nextCalled>>
    /\ UNCHANGED <<codecVars, catVars, enumVars, qryVars, strmVars,
                   bindVars, utilVars, httpVars>>

Responder == ResponderBind \/ ResponderRecv \/ ResponderHandle
Collector == CollectorOpen \/ CollectorAdd \/ CollectorPoll \/ CollectorWake

Next ==
    \/ ServiceControl
    \/ ClientConnect
    \/ ResponderBind
    \/ ResponderRecv
    \/ ResponderHandle
    \/ CollectorOpen
    \/ CollectorAdd
    \/ CollectorPoll
    \/ CollectorWake
    \/ ScopeJoin

Spec == Init /\ [][Next]_vars

\* The two threads and the join are scheduled by the operating system and
\* each takes its next step when it can; the arrival of connections and of
\* control events is left to the environment.
FairSpec ==
    /\ Spec
    /\ WF_vars(Responder)
    /\ WF_vars(Collector)
    /\ WF_vars(ScopeJoin)

\* The same, with clients that keep connecting.
FairTrafficSpec ==
    /\ FairSpec
    /\ WF_vars(ClientConnect)

---------------------------------------------------------------------------
(* Claims about the exporter service                                       *)

NoValues == [i \in Streams |-> None]

\* C1: in a running collector a stream whose next() returned an error on a
\* tick keeps the registry value it had when the tick began, every stream
\* whose next() succeeded holds the value just read, and the tick goes on
\* past the failure: every stream is polled before the collector sleeps.
C1_FailedReadKeepsValue ==
    cpc \in {"poll", "sleep"} =>
        /\ Len(tickRes) = (IF cpc = "sleep" THEN NumStreams ELSE cidx - 1)
        /\ \A i \in Streams :
             IF i <= Len(tickRes) /\ IsOk(tickRes[i])
             THEN registry[i] = Some(tickRes[i].val)
             ELSE registry[i] = tickStart[i]

\* A tick has ended in which an early stream failed while holding a value
\* and a later stream succeeded and changed its entry.
C1_Witness ==
    /\ cpc = "sleep"
    /\ \E i, j \in Streams :
         /\ i < j
         /\ ~IsOk(tickRes[i])
         /\ tickStart[i] # None
         /\ registry[i] = tickStart[i]
         /\ IsOk(tickRes[j])
         /\ registry[j] # tickStart[j]

ThreadEnded(pc) == pc \in {"returned", "panicked"}

\* C2: once the stop signal has been delivered, both the responder and the
\* collector eventually exit and the join of both completes.  (Stated in
\* its weakest reading: a thread that ended in any way counts as exited.)
C2_StopEndsBothTasks ==
    stopRequested ~> (ThreadEnded(rpc) /\ ThreadEnded(cpc) /\ mainpc # "scope")

\* C3: the responder never waits for a request without bound: whenever it
\* waits and no connection has come in, it has a step of its own to take
\* (the timeout that brings it back to the head of its loop).
C3_WaitIsBounded ==
    (rpc = "recv" /\ ~connPending) => ENABLED Responder

ExactlyOneBadPath ==
    \E i \in Streams :
        /\ pathStatus[i] # "ok"
        /\ \A j \in Streams \ {i} : pathStatus[j] = "ok"

\* C4: with one configured path invalid (validation or attach fails) and
\* the others valid, the collector never reaches a tick: no next() is ever
\* called and no registry entry ever receives a value.
C4_InvalidPathFailsFast ==
    ExactlyOneBadPath =>
        /\ cpc \notin {"poll", "sleep"}
        /\ ~nextCalled
        /\ registry = NoValues

\* The last configured path is the bad one: the collector set up all the
\* others and then failed on it.
C4_Witness ==
    /\ ExactlyOneBadPath
    /\ pathStatus[NumStreams] # "ok"
    /\ cpc = "panicked"
    /\ cidx = NumStreams

\* C5: once the collector's setup has failed, the responder stops as well
\* and the join of both threads returns, ending the process with a failure.
C5_SetupFailureEndsProcess ==
    (cpc = "panicked") ~> (ThreadEnded(rpc) /\ mainpc = "panicked")

---------------------------------------------------------------------------
(* The multi-string decoder: null_separated_to_vec                         *)

\* Code units of the buffers handed to the decoder: the terminator and two
\* letters.
Units == {0, 65, 66}
Letters == Units \ {0}

SeqsUpTo(S, n) == UNION {[1..k -> S] : k \in 0..n}

\* Vec::pop: removes the last element, and does nothing on an empty vector.
pop(v) == IF Len(v) = 0 THEN v ELSE SubSeq(v, 1, Len(v) - 1)

\* slice::split(|el| *el == 0): the segments between the terminators; an
\* empty slice has the one empty segment, and a terminator at either end
\* yields an empty segment there.
FirstNul(s) == CHOOSE k \in 1..Len(s) : s[k] = 0 /\ \A j \in 1..(k - 1) : s[j] # 0
RECURSIVE split(_)
split(s) ==
    IF \A k \in 1..Len(s) : s[k] # 0 THEN <<s>>
    ELSE <<SubSeq(s, 1, FirstNul(s) - 1)>> \o split(SubSeq(s, FirstNul(s) + 1, Len(s)))

\* null_separated_to_vec: pop the last two units, split the rest on the
\* terminator and keep every segment.
DecodeDroppingEmpty(b) == SelectSeq(split(pop(pop(b))), LAMBDA seg : seg # <<>>)
DecodePoppingOne(b) == split(pop(b))
DecodeEmptyToNothing(b) == IF Len(b) = 0 THEN <<>> ELSE split(pop(pop(b)))
null_separated_to_vec(b) == split(pop(pop(b)))

\* The multi-string wire format of the subsystem: the strings separated by
\* one terminator, the whole closed by two terminators.
RECURSIVE JoinNul(_)
JoinNul(xs) ==
    IF Len(xs) = 0 THEN <<>>
    ELSE IF Len(xs) = 1 THEN xs[1]
    ELSE xs[1] \o <<0>> \o JoinNul(Tail(xs))
EncodeMultiString(xs) == JoinNul(xs) \o <<0, 0>>

StringLists == SeqsUpTo(SeqsUpTo(Letters, MaxStrLen), MaxStrings)
RawBuffers == SeqsUpTo(Units, MaxBufLen)

SvcIdle ==
    /\ mainpc = "idle"
    /\ rpc = "idle"
    /\ connPending = FALSE
    /\ cpc = "idle"
    /\ cidx = 1
    /\ queryOpen = FALSE
    /\ attached = {}
    /\ registry = [i \in Streams |-> None]
    /\ pathStatus = [i \in Streams |-> "ok"]
    /\ stopRequested = FALSE
    /\ handlerResult = "none"
    /\ tickStart = [i \in Streams |-> None]
    /\ tickRes = <<>>
    /\ nextCalled = FALSE

\* The buffer is either the multi-string of some list of strings or any
\* sequence of units at all (what a misbehaving subsystem could leave).
CodecInit ==
    /\ \/ \E xs \in StringLists : strings = Some(xs) /\ buf = EncodeMultiString(xs)
       \/ strings = None /\ buf \in RawBuffers
    /\ decoded = <<>>
    /\ decpc = "ready"
    /\ SvcIdle
    /\ CatalogIdle
    /\ EnumIdle
    /\ QueryIdle
    /\ StreamIdle
    /\ BindingIdle
    /\ StreamModeIdle
    /\ ServeIdle

\* The call returns a Vec: the function has no failing path.
Decode ==
    /\ decpc = "ready"
    /\ decoded' = null_separated_to_vec(buf)
    /\ decpc' = "returned"
    /\ UNCHANGED <<strings, buf>>
    /\ UNCHANGED <<svcVars, catVars, enumVars, qryVars, strmVars,
                   bindVars, utilVars, httpVars>>

CodecNext == Decode

CodecSpec == CodecInit /\ [][CodecNext]_vars

---------------------------------------------------------------------------
(* Claims about the decoder                                                *)

\* C6 as stated: for every N >= 0, decoding the multi-string of N strings
\* returns exactly those N strings in order.
C6_DecodesEveryList ==
    (decpc = "returned" /\ strings # None) =>
        /\ Len(decoded) = Len(strings[1])
        /\ \A i \in 1..Len(decoded) : decoded[i] = strings[1][i]

\* C6 as amended: for every N >= 1, decoding the multi-string of N strings
\* (empty ones included) returns exactly those N strings in order, each
\* empty segment kept as an element.
C6_DecodesNonEmptyList ==
    (decpc = "returned" /\ strings # None /\ Len(strings[1]) >= 1) =>
        /\ Len(decoded) = Len(strings[1])
        /\ \A i \in 1..Len(decoded) : decoded[i] = strings[1][i]

\* Three strings with an empty one in the middle were decoded.
C6_Witness ==
    /\ decpc = "returned"
    /\ strings # None
    /\ Len(strings[1]) = 3
    /\ strings[1][2] = <<>>
    /\ strings[1][1] # <<>>
    /\ Len(decoded) = 3
    /\ decoded[2] = <<>>

\* C7 as stated: decode(encode(xs)) = xs for every list xs, and
\* encode(decode(b)) = b for every well-formed buffer b.
C7_RoundTrip ==
    (decpc = "returned" /\ strings # None) =>
        /\ decoded = strings[1]
        /\ EncodeMultiString(decoded) = buf

\* C7 as amended: decode(encode(xs)) = xs for every list xs of at least one
\* string, and encode(decode(b)) = b for every well-formed buffer b.
C7_RoundTripNonEmpty ==
    (decpc = "returned" /\ strings # None) =>
        /\ Len(strings[1]) >= 1 => decoded = strings[1]
        /\ EncodeMultiString(decoded) = buf

\* The multi-string of two different non-empty strings was decoded to those
\* strings and encodes back to the buffer.
C7_Witness ==
    /\ decpc = "returned"
    /\ strings # None
    /\ Len(strings[1]) = 2
    /\ strings[1][1] # strings[1][2]
    /\ strings[1][1] # <<>>
    /\ strings[1][2] # <<>>
    /\ decoded = strings[1]
    /\ EncodeMultiString(decoded) = buf

\* C8: on a buffer shorter than two units the decoder fails with a
\* ProtocolError and returns no elements.
C8_ShortBufferFails ==
    (decpc # "ready" /\ Len(buf) < 2) => (decpc = "failed" /\ decoded = <<>>)

---------------------------------------------------------------------------
(* The catalog walk: PDH::enumerate_counters                               *)

\* String::from_utf16_lossy: a surrogate pair becomes its code point, an
\* unpaired surrogate becomes U+FFFD, every other unit is its code point.
IsHighSurrogate(u) == u \in 55296..56319
IsLowSurrogate(u) == u \in 56320..57343
RECURSIVE from_utf16_lossy(_)
from_utf16_lossy(s) ==
    IF Len(s) = 0 THEN <<>>
    ELSE IF IsHighSurrogate(s[1]) /\ Len(s) >= 2 /\ IsLowSurrogate(s[2])
    THEN <<65536 + (s[1] - 55296) * 1024 + (s[2] - 56320)>> \o from_utf16_lossy(Tail(Tail(s)))
    ELSE IF IsHighSurrogate(s[1]) \/ IsLowSurrogate(s[1])
    THEN <<65533>> \o from_utf16_lossy(Tail(s))
    ELSE <<s[1]>> \o from_utf16_lossy(Tail(s))

\* Names the subsystem can hold, as UTF-16 code units.
Memory == <<77, 101, 109, 111, 114, 121>>
AvailableBytes == <<65, 118, 97, 105, 108, 97, 98, 108, 101, 32, 66, 121, 116, 101, 115>>
HostH == <<72>>
\* "P" followed by an unpaired surrogate
BrokenName == <<80, 55357>>
\* a counter called "C"
CounterC == <<67>>
\* the instances "0" and U+1F600 (a surrogate pair)
Instance0 == <<48>>
InstancePair == <<55357, 56832>>

ObjNames == {Memory, BrokenName}
ObjectProbeStatuses == {PDH_MORE_DATA, PDH_INVALID_ARGUMENT}
ObjectFillStatuses == {ERROR_SUCCESS, PDH_MORE_DATA}
ItemProbeStatuses == {PDH_MORE_DATA, PDH_CSTATUS_NO_OBJECT, PDH_INVALID_ARGUMENT}
ItemFillStatuses == {ERROR_SUCCESS, PDH_CSTATUS_NO_OBJECT, PDH_MORE_DATA}
CounterBufs == {EncodeMultiString(<<AvailableBytes>>), EncodeMultiString(<<AvailableBytes, CounterC>>)}
\* An object without instances reports an instance list of length zero.
InstanceBufs == {<<>>, EncodeMultiString(<<Instance0>>), EncodeMultiString(<<Instance0, InstancePair>>)}

\* PDH::enumerate_objects_utf16: the probe call must answer PDH_MORE_DATA,
\* the fill call ERROR_SUCCESS; then the filled buffer is decoded.
enumerate_objects_utf16(probeStatus, fillStatus, object_list) ==
    IF probeStatus = PDH_MORE_DATA
    THEN IF fillStatus = ERROR_SUCCESS
         THEN Ok(null_separated_to_vec(object_list))
         ELSE Err(fillStatus)
    ELSE Err(probeStatus)

\* PDH::enumerate_items_utf16: the same with two buffers; the result is the
\* pair (counters, instances).
enumerate_items_utf16(probeStatus, fillStatus, counter_list, instance_list) ==
    IF probeStatus = PDH_MORE_DATA
    THEN IF fillStatus # ERROR_SUCCESS
         THEN Err(fillStatus)
         ELSE Ok([counters |-> null_separated_to_vec(counter_list),
                  instances |-> null_separated_to_vec(instance_list)])
    ELSE Err(probeStatus)

\* What lies in memory behind a Vec<u16> that holds no terminator: some
\* units that are not NUL, then a NUL.  Reading them is a read of memory the
\* Vec never initialised; any content is possible.
Overruns == SeqsUpTo({65}, MaxOverrun)

\* What a primitive reads from an LPCWSTR that points at the buffer: the
\* units up to the first NUL, in the buffer or behind it.
ReadLPCWSTR(buffer, behind) == Head(split(buffer \o behind \o <<0>>))

\* The szMachineName argument of PdhEnumObjectsW in enumerate_objects_utf16:
\* self.machine_name's pointer when it is set, null_mut() otherwise.  The
\* name is stored as the caller gave it (with_machine_name appends no
\* terminator; perf-util hands in encode_utf16().collect()), so the primitive
\* reads on behind it.
ObjectsMachineArg(machine, behind) ==
    IF machine = None THEN None ELSE Some(ReadLPCWSTR(machine[1], behind))

\* The szMachineName argument of PdhEnumObjectItemsW in enumerate_items_utf16:
\* both calls pass null_mut(), whatever self.machine_name holds.
ItemsMachineArg(machine) == None

\* The calls one enumeration makes: the probe, and the fill when the probe
\* answered PDH_MORE_DATA.
EnumCalls(fn, probeArg, fillArg, probeStatus) ==
    IF probeStatus = PDH_MORE_DATA
    THEN <<[fn |-> fn, machine |-> probeArg], [fn |-> fn, machine |-> fillArg]>>
    ELSE <<[fn |-> fn, machine |-> probeArg]>>

\* let path_prefix = if let Some(machine_name) { format!("\\\\{}", ..) } else { String::new() }
PathPrefix(machine) ==
    IF machine # None THEN <<92, 92>> \o from_utf16_lossy(machine[1]) ELSE <<>>

\* let i = if i.is_empty() { String::new() } else { format!("({})", ..) }
AlwaysParenthesized(i) == <<40>> \o from_utf16_lossy(i) \o <<41>>
InstanceSegment(i) ==
    IF Len(i) = 0 THEN <<>> ELSE <<40>> \o from_utf16_lossy(i) \o <<41>>

\* format!("{}\\{}{}\\{}", path_prefix, obj, i, c)
FormatPath(path_prefix, obj, i, c) ==
    path_prefix \o <<92>> \o obj \o i \o <<92>> \o c

\* for c in &counters { counter_path_vec.push(..) }
RECURSIVE CounterLoop(_, _, _, _)
CounterLoop(path_prefix, obj, i, counters) ==
    IF Len(counters) = 0 THEN <<>>
    ELSE <<FormatPath(path_prefix, obj, i, from_utf16_lossy(Head(counters)))>>
         \o CounterLoop(path_prefix, obj, i, Tail(counters))

\* for i in &instances { .. }
RECURSIVE InstancesOfCounter(_, _, _, _)
InstancesOfCounter(path_prefix, obj, instances, c) ==
    IF Len(instances) = 0 THEN <<>>
    ELSE <<FormatPath(path_prefix, obj, InstanceSegment(Head(instances)), from_utf16_lossy(c))>>
         \o InstancesOfCounter(path_prefix, obj, Tail(instances), c)
RECURSIVE CountersOuterLoop(_, _, _, _)
CountersOuterLoop(path_prefix, obj, instances, counters) ==
    IF Len(counters) = 0 THEN <<>>
    ELSE InstancesOfCounter(path_prefix, obj, instances, Head(counters))
         \o CountersOuterLoop(path_prefix, obj, instances, Tail(counters))
RECURSIVE InstanceLoop(_, _, _, _)
InstanceLoop(path_prefix, obj, instances, counters) ==
    IF Len(instances) = 0 THEN <<>>
    ELSE CounterLoop(path_prefix, obj, InstanceSegment(Head(instances)), counters)
         \o InstanceLoop(path_prefix, obj, Tail(instances), counters)

\* match self.enumerate_items_utf16(&obj) { Ok(t) => t,
\*   Err(PDH_CSTATUS_NO_OBJECT) => continue, Err(s) => return Err(s) }
AbortOnAnyError(r) ==
    IF IsOk(r) THEN "emit" ELSE "abort"
SkipOnAnyError(r) ==
    IF IsOk(r) THEN "emit" ELSE "skip"
ItemsOutcome(r) ==
    IF IsOk(r) THEN "emit"
    ELSE IF r.status = PDH_CSTATUS_NO_OBJECT THEN "skip"
    ELSE "abort"

CatalogInit ==
    /\ machine_name \in {None, Some(HostH)}
    /\ wpc = "start"
    /\ objList = <<>>
    /\ widx = 1
    /\ walkLog = <<>>
    /\ itemBufs = <<>>
    /\ machineArgs = <<>>
    /\ counter_path_vec = <<>>
    /\ walkResult = None
    /\ SvcIdle
    /\ CodecIdle
    /\ EnumIdle
    /\ QueryIdle
    /\ StreamIdle
    /\ BindingIdle
    /\ StreamModeIdle
    /\ ServeIdle

\* for obj in self.enumerate_objects_utf16()? : an Err leaves the function,
\* an empty list ends the loop at once.
WalkStart ==
    /\ wpc = "start"
    /\ \E probe \in ObjectProbeStatuses, fill \in ObjectFillStatuses,
          names \in SeqsUpTo(ObjNames, MaxObjects),
          behind1 \in (IF machine_name = None THEN {<<>>} ELSE Overruns),
          behind2 \in (IF machine_name = None THEN {<<>>} ELSE Overruns) :
         LET r == enumerate_objects_utf16(probe, fill, EncodeMultiString(names)) IN
         /\ IF ~IsOk(r)
            THEN /\ wpc' = "returned"
                 /\ walkResult' = Some(Err(r.status))
                 /\ objList' = objList
            ELSE /\ objList' = r.val
                 /\ wpc' = IF Len(r.val) = 0 THEN "returned" ELSE "walk"
                 /\ walkResult' = IF Len(r.val) = 0 THEN Some(Ok(counter_path_vec)) ELSE None
         /\ machineArgs' = machineArgs
                \o EnumCalls("PdhEnumObjectsW", ObjectsMachineArg(machine_name, behind1),
                             ObjectsMachineArg(machine_name, behind2), probe)
    /\ UNCHANGED <<machine_name, widx, walkLog, itemBufs, counter_path_vec>>
    /\ UNCHANGED <<svcVars, codecVars, enumVars, qryVars, strmVars,
                   bindVars, utilVars, httpVars>>

\* One iteration of the loop over the objects; after the last object the
\* function returns Ok(counter_path_vec).
WalkObject ==
    /\ wpc = "walk"
    /\ \E probe \in ItemProbeStatuses, fill \in ItemFillStatuses,
          cbuf \in CounterBufs, ibuf \in InstanceBufs :
         LET obj == objList[widx]
             r == enumerate_items_utf16(probe, fill, cbuf, ibuf)
             outcome == ItemsOutcome(r)
             paths == IF outcome = "emit"
                      THEN counter_path_vec
                           \o InstanceLoop(PathPrefix(machine_name), from_utf16_lossy(obj),
                                           r.val.instances, r.val.counters)
                      ELSE counter_path_vec
             last == widx = Len(objList)
         IN
         /\ walkLog' = Append(walkLog, r)
         /\ itemBufs' = Append(itemBufs,
                               IF IsOk(r)
                               THEN Some([counter_list |-> cbuf, instance_list |-> ibuf])
                               ELSE None)
         /\ machineArgs' = machineArgs
                \o EnumCalls("PdhEnumObjectItemsW", ItemsMachineArg(machine_name),
                             ItemsMachineArg(machine_name), probe)
         /\ IF outcome = "abort"
            THEN /\ wpc' = "returned"
                 /\ walkResult' = Some(Err(r.status))
                 /\ UNCHANGED <<widx, counter_path_vec>>
            ELSE /\ counter_path_vec' = paths
                 /\ widx' = widx + 1
                 /\ wpc' = IF last THEN "returned" ELSE "walk"
                 /\ walkResult' = IF last THEN Some(Ok(paths)) ELSE None
    /\ UNCHANGED <<machine_name, objList>>
    /\ UNCHANGED <<svcVars, codecVars, enumVars, qryVars, strmVars,
                   bindVars, utilVars, httpVars>>

CatalogNext == WalkStart \/ WalkObject

CatalogSpec == CatalogInit /\ [][CatalogNext]_vars

---------------------------------------------------------------------------
(* Claims about the catalog walk                                           *)

Range(q) == {q[n] : n \in 1..Len(q)}

\* The rendered form of a counter path as the data model describes it:
\* \\host only when there is a host, \object, (instance) only when the
\* instance is not empty, \counter.
RenderedCounterPath(host, object, instance, counter) ==
    (IF host # None THEN <<92, 92>> \o host[1] ELSE <<>>)
    \o <<92>> \o object
    \o (IF instance # <<>> THEN <<40>> \o instance \o <<41>> ELSE <<>>)
    \o <<92>> \o counter

HostString == IF machine_name = None THEN None ELSE Some(from_utf16_lossy(machine_name[1]))

\* The paths the data model prescribes for the objects whose items were
\* enumerated so far.
PrescribedPaths ==
    UNION { { RenderedCounterPath(HostString,
                                  from_utf16_lossy(objList[k]),
                                  from_utf16_lossy(walkLog[k].val.instances[i]),
                                  from_utf16_lossy(walkLog[k].val.counters[c]))
              : i \in 1..Len(walkLog[k].val.instances),
                c \in 1..Len(walkLog[k].val.counters) }
            : k \in {n \in 1..Len(walkLog) : IsOk(walkLog[n])} }

Listed(object, instance, counter) ==
    \E k \in 1..Len(walkLog) :
        /\ IsOk(walkLog[k])
        /\ objList[k] = object
        /\ instance \in Range(walkLog[k].val.instances)
        /\ counter \in Range(walkLog[k].val.counters)

\* "\Memory\Available Bytes"
PathMemoryAvailable ==
    <<92, 77, 101, 109, 111, 114, 121,
      92, 65, 118, 97, 105, 108, 97, 98, 108, 101, 32, 66, 121, 116, 101, 115>>
\* "\\H\Memory(0)\Available Bytes"
PathHostMemory0Available ==
    <<92, 92, 72, 92, 77, 101, 109, 111, 114, 121, 40, 48, 41,
      92, 65, 118, 97, 105, 108, 97, 98, 108, 101, 32, 66, 121, 116, 101, 115>>
\* "\\H\Memory\Available Bytes"
PathHostMemoryAvailable ==
    <<92, 92, 72, 92, 77, 101, 109, 111, 114, 121,
      92, 65, 118, 97, 105, 108, 97, 98, 108, 101, 32, 66, 121, 116, 101, 115>>

\* C9: every path the walk pushes is the rendered form of its object,
\* instance and counter: two backslashes and the host only when a host is
\* configured, a backslash and the object, the instance in parentheses only
\* when it is not empty, a backslash and the counter.  Without a host,
\* Memory with an empty instance and Available Bytes gives
\* \Memory\Available Bytes; with host H and instance 0 it gives
\* \\H\Memory(0)\Available Bytes.
C9_RenderedPath ==
    /\ Range(counter_path_vec) = PrescribedPaths
    /\ (machine_name = None /\ Listed(Memory, <<>>, AvailableBytes))
          => PathMemoryAvailable \in Range(counter_path_vec)
    /\ (machine_name = Some(HostH) /\ Listed(Memory, Instance0, AvailableBytes))
          => PathHostMemory0Available \in Range(counter_path_vec)

\* A walk for host H returned paths with and without an instance.
C9_Witness ==
    /\ wpc = "returned"
    /\ walkResult # None
    /\ IsOk(walkResult[1])
    /\ machine_name = Some(HostH)
    /\ PathHostMemory0Available \in Range(walkResult[1].val)
    /\ PathHostMemoryAvailable \in Range(walkResult[1].val)

NoObjectAt(k) == ~IsOk(walkLog[k]) /\ walkLog[k].status = PDH_CSTATUS_NO_OBJECT

\* The walk over the listed objects with those reported as 'no object'
\* taken out of the list, from object k on.
RECURSIVE WalkWithoutNoObject(_)
WalkWithoutNoObject(k) ==
    IF k > Len(walkLog) THEN <<>>
    ELSE IF NoObjectAt(k) THEN WalkWithoutNoObject(k + 1)
    ELSE InstanceLoop(PathPrefix(machine_name), from_utf16_lossy(objList[k]),
                      walkLog[k].val.instances, walkLog[k].val.counters)
         \o WalkWithoutNoObject(k + 1)

\* C10: a 'no object' status from the item enumeration of an object does
\* not abort the walk: the walk goes on with the next object, and what it
\* returns is what it would return had that object not been listed.
C10_NoObjectIsSkipped ==
    /\ (Len(walkLog) >= 1 /\ NoObjectAt(Len(walkLog))) =>
          /\ widx = Len(walkLog) + 1
          /\ walkResult = None \/ IsOk(walkResult[1])
    /\ (wpc = "returned" /\ walkResult # None /\ IsOk(walkResult[1])) =>
          /\ Len(walkLog) = Len(objList)
          /\ walkResult[1].val = WalkWithoutNoObject(1)

\* A walk met 'no object' on its first object and returned the paths of a
\* later one.
C10_Witness ==
    /\ wpc = "returned"
    /\ walkResult # None
    /\ IsOk(walkResult[1])
    /\ Len(walkLog) >= 2
    /\ NoObjectAt(1)
    /\ Len(walkResult[1].val) > 0

\* Number of paths owed by the objects before object k that were not
\* skipped: the sum of |instances| * |counters|.
RECURSIVE PathsBefore(_)
PathsBefore(k) ==
    IF k <= 1 THEN 0
    ELSE PathsBefore(k - 1)
         + (IF IsOk(walkLog[k - 1])
            THEN Len(walkLog[k - 1].val.instances) * Len(walkLog[k - 1].val.counters)
            ELSE 0)

\* C11: the walk returns, object by object in enumeration order, one path
\* per (instance, counter) pair, instances outermost and counters
\* innermost; its length is the sum of |instances| * |counters| over the
\* objects that were not skipped.
C11_PathOrder ==
    (wpc = "returned" /\ walkResult # None /\ IsOk(walkResult[1])) =>
        LET paths == walkResult[1].val IN
        /\ Len(paths) = PathsBefore(Len(walkLog) + 1)
        /\ \A k \in 1..Len(walkLog) :
             IsOk(walkLog[k]) =>
               LET insts == walkLog[k].val.instances
                   ctrs == walkLog[k].val.counters
               IN \A i \in 1..Len(insts), c \in 1..Len(ctrs) :
                    paths[PathsBefore(k) + (i - 1) * Len(ctrs) + c]
                      = RenderedCounterPath(HostString, from_utf16_lossy(objList[k]),
                                            from_utf16_lossy(insts[i]), from_utf16_lossy(ctrs[c]))

\* A walk returned the paths of two objects, the second of which has two
\* instances and two counters.
C11_Witness ==
    /\ wpc = "returned"
    /\ walkResult # None
    /\ IsOk(walkResult[1])
    /\ Len(walkLog) = 2
    /\ IsOk(walkLog[1])
    /\ IsOk(walkLog[2])
    /\ Len(walkLog[2].val.instances) = 2
    /\ Len(walkLog[2].val.counters) = 2
    /\ Len(walkResult[1].val) = PathsBefore(2) + 4

---------------------------------------------------------------------------
(* The size-probing enumerations, call by call (lib.rs)                    *)
(*                                                                         *)
(* enumerate_objects_utf16, enumerate_items_utf16 and                      *)
(* expand_counter_path_utf16 each call a subsystem primitive with null     *)
(* output buffers to learn the lengths, then again with buffers of those   *)
(* lengths.  The subsystem's answers (status, lengths, what it writes) are  *)
(* chosen freely; pdhCalls records what the code passed on each call.       *)

EnumOps == {"objects", "items", "expand"}
\* Answers of the enumeration primitives.
EnumStatuses == {ERROR_SUCCESS, PDH_MORE_DATA, PDH_CSTATUS_NO_OBJECT, PDH_INVALID_ARGUMENT}

\* PdhEnumObjectItemsW takes two (buffer, length) pairs, the others one.
NumBuffers(which) == IF which = "items" THEN 2 ELSE 1

PrimitiveOf(which) ==
    CASE which = "objects" -> "PdhEnumObjectsW"
      [] which = "items" -> "PdhEnumObjectItemsW"
      [] OTHER -> "PdhExpandCounterPathW"

\* fn zeroed_buffer(size) : a Vec of `size` zeros
zeroed_buffer(size) == [n \in 1..size |-> 0]

\* What a primitive can leave in a buffer of the given capacity.
Written(capacity) == [1..capacity -> Units]

\* What a call can leave in the buffers it was handed: each buffer keeps its
\* length and holds any units.
FilledData(buffers) ==
    IF Len(buffers) = 1
    THEN { <<a>> : a \in Written(Len(buffers[1])) }
    ELSE { <<a, b>> : a \in Written(Len(buffers[1])), b \in Written(Len(buffers[2])) }

\* A probe answer every size test lets through, whatever the operation.
AnyProbeAccepted(which, probeStatus) == probeStatus \in {ERROR_SUCCESS, PDH_MORE_DATA}

\* The test on the probe call's status that guards the fill call:
\* `if status == PDH_MORE_DATA` in the two enumerations,
\* `if status != ERROR_SUCCESS { return Err(status) }` in the expansion.
ProbeAccepted(which, probeStatus) ==
    IF which = "expand"
    THEN ~(probeStatus # ERROR_SUCCESS)
    ELSE probeStatus = PDH_MORE_DATA

\* PDH::expand_counter_path_utf16 as a function of the two answers.
expand_counter_path_utf16(probeStatus, fillStatus, unparsed_list) ==
    IF probeStatus # ERROR_SUCCESS THEN Err(probeStatus)
    ELSE IF fillStatus # ERROR_SUCCESS THEN Err(fillStatus)
    ELSE Ok(null_separated_to_vec(unparsed_list))

\* The lengths the fill call can leave in the length cells.  The cells are
\* in/out arguments (&mut buffer_length, &mut counter_list_len, ..) that the
\* code never reads again.  On ERROR_SUCCESS the primitive writes the lengths
\* it used, at most those of the buffers; on PDH_MORE_DATA the lengths it
\* requires, the probed ones or larger ones when the list grew after the
\* probe; on the other statuses the cells keep the probed lengths.
FillLengths(lens_in, answer) ==
    LET cells == [1..Len(lens_in) -> 0..(MaxProbeLen + 1)] IN
    CASE answer = ERROR_SUCCESS ->
           { l \in cells : \A n \in 1..Len(lens_in) : l[n] <= lens_in[n] }
      [] answer = PDH_MORE_DATA ->
           { l \in cells : \A n \in 1..Len(lens_in) : l[n] >= lens_in[n] }
      [] OTHER -> {lens_in}

\* An operation that decodes the buffers whatever the fill call answered.
DecodeWhateverFilled(which, probeStatus, fillStatus, data) ==
    CASE which = "objects" -> enumerate_objects_utf16(probeStatus, ERROR_SUCCESS, data[1])
      [] which = "items" -> enumerate_items_utf16(probeStatus, ERROR_SUCCESS, data[1], data[2])
      [] OTHER -> expand_counter_path_utf16(probeStatus, ERROR_SUCCESS, data[1])

\* What the operation returns once the fill call has answered.
AfterFill(which, probeStatus, fillStatus, data) ==
    CASE which = "objects" -> enumerate_objects_utf16(probeStatus, fillStatus, data[1])
      [] which = "items" -> enumerate_items_utf16(probeStatus, fillStatus, data[1], data[2])
      [] OTHER -> expand_counter_path_utf16(probeStatus, fillStatus, data[1])

\* What the operation returns when the probe's status ends it.
AfterProbe(which, probeStatus) ==
    CASE which = "objects" -> enumerate_objects_utf16(probeStatus, ERROR_SUCCESS, <<>>)
      [] which = "items" -> enumerate_items_utf16(probeStatus, ERROR_SUCCESS, <<>>, <<>>)
      [] OTHER -> expand_counter_path_utf16(probeStatus, ERROR_SUCCESS, <<>>)

EnumInit ==
    /\ eop \in EnumOps
    /\ epc = "probe"
    /\ enumStatus = ERROR_SUCCESS
    /\ buffer_length = [n \in 1..NumBuffers(eop) |-> 0]
    /\ pdhCalls = <<>>
    /\ enumResult = None
    /\ SvcIdle
    /\ CodecIdle
    /\ CatalogIdle
    /\ QueryIdle
    /\ StreamIdle
    /\ BindingIdle
    /\ StreamModeIdle
    /\ ServeIdle

\* The first call: null buffers, length cells holding 0.
EnumProbe ==
    /\ epc = "probe"
    /\ \E answer \in EnumStatuses, lens \in [1..NumBuffers(eop) -> 0..MaxProbeLen] :
         /\ pdhCalls' = Append(pdhCalls,
                               [fn |-> PrimitiveOf(eop),
                                bufs |-> [n \in 1..NumBuffers(eop) |-> None],
                                lens_in |-> buffer_length,
                                status |-> answer,
                                lens_out |-> lens,
                                data |-> <<>>])
         /\ enumStatus' = answer
         /\ buffer_length' = lens
         /\ IF ProbeAccepted(eop, answer)
            THEN /\ epc' = "fill"
                 /\ enumResult' = None
            ELSE /\ epc' = "returned"
                 /\ enumResult' = Some(AfterProbe(eop, answer))
    /\ UNCHANGED eop
    /\ UNCHANGED <<svcVars, codecVars, catVars, qryVars, strmVars,
                   bindVars, utilVars, httpVars>>

\* The second call: one zeroed buffer per length cell, of the length the
\* cell holds; then the status test and the decoding.
EnumFill ==
    /\ epc = "fill"
    /\ LET buffers == [n \in 1..NumBuffers(eop) |-> zeroed_buffer(buffer_length[n])] IN
       \E answer \in EnumStatuses :
       \E lens \in FillLengths(buffer_length, answer) :
       \E data \in FilledData(buffers) :
         /\ pdhCalls' = Append(pdhCalls,
                               [fn |-> PrimitiveOf(eop),
                                bufs |-> [n \in 1..NumBuffers(eop) |-> Some(Len(buffers[n]))],
                                lens_in |-> buffer_length,
                                status |-> answer,
                                lens_out |-> lens,
                                data |-> data])
         /\ enumStatus' = answer
         /\ buffer_length' = lens
         /\ enumResult' = Some(AfterFill(eop, enumStatus, answer, data))
         /\ epc' = "returned"
    /\ UNCHANGED eop
    /\ UNCHANGED <<svcVars, codecVars, catVars, qryVars, strmVars,
                   bindVars, utilVars, httpVars>>

EnumNext == EnumProbe \/ EnumFill

EnumSpec == EnumInit /\ [][EnumNext]_vars

---------------------------------------------------------------------------
(* Claims about the size-probing enumerations                              *)

\* C12: in listObjects and listItems the fill call is issued exactly when
\* the probe call (null buffers; both lengths in the one call for
\* listItems) answered 'more data', with buffers of exactly the probed
\* lengths; the result is the decoded list exactly when the probe answered
\* 'more data' and the fill answered success, and otherwise an error that
\* carries the deviating status.
C12_TwoPhaseProtocol ==
    (eop \in {"objects", "items"} /\ epc \in {"fill", "returned"}) =>
        LET probe == pdhCalls[1]
            cells == IF eop = "items" THEN 2 ELSE 1
        IN
        /\ \A n \in 1..cells : probe.bufs[n] = None
        /\ Len(probe.bufs) = cells
        /\ (epc = "fill") => (probe.status = PDH_MORE_DATA /\ Len(pdhCalls) = 1)
        /\ (epc = "returned") =>
             /\ Len(pdhCalls) = (IF probe.status = PDH_MORE_DATA THEN 2 ELSE 1)
             /\ enumResult # None
             /\ (Len(pdhCalls) = 2) =>
                  LET fill == pdhCalls[2] IN
                  /\ Len(fill.bufs) = cells
                  /\ \A n \in 1..cells : fill.bufs[n] = Some(probe.lens_out[n])
                  /\ fill.lens_in = probe.lens_out
                  /\ IsOk(enumResult[1]) <=> (fill.status = ERROR_SUCCESS)
                  /\ IsOk(enumResult[1]) =>
                       IF eop = "items"
                       THEN enumResult[1].val = [counters |-> null_separated_to_vec(fill.data[1]),
                                                 instances |-> null_separated_to_vec(fill.data[2])]
                       ELSE enumResult[1].val = null_separated_to_vec(fill.data[1])
                  /\ ~IsOk(enumResult[1]) => enumResult[1].status = fill.status
             /\ (Len(pdhCalls) = 1) => enumResult[1] = Err(probe.status)

\* listItems probed two different lengths in one call, filled two buffers
\* of those lengths and returned the two decoded lists.
C12_Witness ==
    /\ eop = "items"
    /\ epc = "returned"
    /\ Len(pdhCalls) = 2
    /\ pdhCalls[1].status = PDH_MORE_DATA
    /\ pdhCalls[1].lens_out = <<3, 2>>
    /\ pdhCalls[2].bufs = <<Some(3), Some(2)>>
    /\ enumResult # None
    /\ IsOk(enumResult[1])
    /\ enumResult[1].val.counters = <<<<65>>>>

\* C13: expandWildcardPath agrees with listObjects, for every probe status
\* and fill status, on whether the fill call is issued and on whether the
\* outcome is a decoded result or an error; 'more data' from the probe
\* leads to the fill call.
C13_ExpandAgreesWithListObjects ==
    (eop = "expand" /\ epc = "returned") =>
        /\ (Len(pdhCalls) = 2) <=> ProbeAccepted("objects", pdhCalls[1].status)
        /\ (pdhCalls[1].status = PDH_MORE_DATA) => (Len(pdhCalls) = 2)
        /\ (Len(pdhCalls) = 2) =>
             (IsOk(enumResult[1])
                <=> IsOk(enumerate_objects_utf16(pdhCalls[1].status, pdhCalls[2].status,
                                                 pdhCalls[2].data[1])))

---------------------------------------------------------------------------
(* Queries, counters and their handles (lib.rs)                            *)
(*                                                                         *)
(* A client holds PdhQuery and PdhCounter values and calls the library's   *)
(* operations on them in any order the compiler accepts: a method needs    *)
(* its PdhQuery alive, a CounterStream borrows the PdhQuery it was built   *)
(* on and so is dropped before it, a PdhCounter held directly borrows      *)
(* nothing.  qryOp records the subsystem calls of the last operation.      *)
(* The subsystem keeps, per counter, the query it is attached to and       *)
(* whether a refresh of that query has given it data.                      *)

Call(fn, h, answer) == [fn |-> fn, h |-> h, status |-> answer]

\* PDH::open_query: the PdhQuery is built around a null handle before the
\* call; on the error return it is dropped and its Drop closes that handle.
open_query_calls(answer) ==
    <<Call("PdhOpenQueryW", "NULL", answer)>>
    \o (IF answer # ERROR_SUCCESS THEN <<Call("PdhCloseQuery", "NULL", "unchecked")>> ELSE <<>>)

\* Both calls, whatever the validation answered.
AttachWithoutValidating(h, validateStatus, addStatus) ==
    <<Call("PdhValidatePathW", "-", validateStatus), Call("PdhAddCounterW", h, addStatus)>>

\* PdhQuery::add_counter_utf16: the calls it issues.
add_counter_calls(h, validateStatus, addStatus) ==
    <<Call("PdhValidatePathW", "-", validateStatus)>>
    \o (IF validateStatus # ERROR_SUCCESS THEN <<>>
        ELSE <<Call("PdhAddCounterW", h, addStatus)>>)

\* PdhQuery::collect_data: the calls it issues.
collect_calls(h, counter, collectStatus, formatStatus) ==
    <<Call("PdhCollectQueryData", h, collectStatus)>>
    \o (IF collectStatus # ERROR_SUCCESS THEN <<>>
        ELSE <<Call("PdhGetFormattedCounterValue", counter, formatStatus)>>)

\* impl Drop for PdhQuery
drop_query_calls(h) == <<Call("PdhCloseQuery", h, "unchecked")>>

\* impl Drop for PdhCounter
drop_counter_calls(counter) == <<Call("PdhRemoveCounter", counter, "unchecked")>>

\* The subsystem's view of a query handle.  The handle a successful
\* PdhOpenQueryW produced for the PdhQuery q is named q; it is open until the
\* first PdhCloseQuery on it.  "NULL" names no query.
HandleState(h) ==
    IF h \notin QueryIds THEN "none"
    ELSE IF queries[h] = "none" THEN "none"
    ELSE IF closeCount[h] = 0 THEN "open" ELSE "closed"

\* The counter's PdhCounter value is alive (held directly or in a stream).
Held(c) == heldCounters[c].state \in {"free", "stream"}

\* The subsystem still has the counter: it was attached, not removed, and
\* its query has not been closed.
CounterValid(c) ==
    /\ heldCounters[c].attachedTo # "-"
    /\ heldCounters[c].state # "removed"
    /\ HandleState(heldCounters[c].attachedTo) = "open"

HasCounters(q) == \E c \in CounterIds : heldCounters[c].attachedTo = q /\ CounterValid(c)

\* The handles among the calls that named nothing alive when the call was
\* issued.
DeadHandles(calls) ==
    {calls[n].h : n \in {m \in 1..Len(calls) :
        \/ calls[m].h \in QueryIds /\ HandleState(calls[m].h) # "open"
        \/ calls[m].h \in CounterIds /\ ~CounterValid(calls[m].h)}}

\* What the subsystem can answer.
OpenAnswers == {ERROR_SUCCESS, PDH_INVALID_ARGUMENT}
ValidateAnswers == {ERROR_SUCCESS, PDH_CSTATUS_BAD_COUNTERNAME}
\* The answer to a call on a handle that names no open query (null, or
\* closed and so freed) is left open: the library passes on whatever the
\* subsystem makes of it.
AddAnswers(h) ==
    IF HandleState(h) = "open" THEN {ERROR_SUCCESS, PDH_CSTATUS_NO_COUNTER}
    ELSE {ERROR_SUCCESS, PDH_CSTATUS_NO_COUNTER, PDH_INVALID_HANDLE}
\* A refresh of a query without counters has nothing to collect.
CollectAnswers(h) ==
    IF HandleState(h) # "open" THEN {ERROR_SUCCESS, PDH_INVALID_HANDLE}
    ELSE IF HasCounters(h) THEN {ERROR_SUCCESS, PDH_NO_DATA} ELSE {PDH_NO_DATA}
\* A counter has a value to format once a refresh of its own query has
\* given it data.
FormatAnswers(c, hasData) ==
    IF ~CounterValid(c) THEN {PDH_INVALID_HANDLE}
    ELSE IF ~hasData THEN {PDH_INVALID_DATA}
    ELSE {ERROR_SUCCESS, PDH_INVALID_DATA}

\* PdhCollectQueryData(q) answered success: every counter of q has data.
Refreshed(q) ==
    [c \in CounterIds |->
        IF heldCounters[c].attachedTo = q /\ CounterValid(c)
        THEN [heldCounters[c] EXCEPT !.sampled = TRUE]
        ELSE heldCounters[c]]

QueryInit ==
    /\ QueryIdle
    /\ SvcIdle
    /\ CodecIdle
    /\ CatalogIdle
    /\ EnumIdle
    /\ StreamIdle
    /\ BindingIdle
    /\ StreamModeIdle
    /\ ServeIdle

\* let query = pdh.open_query()
QOpen(q) ==
    /\ queries[q] = "none"
    /\ \E answer \in OpenAnswers :
         LET r == open_query(answer) IN
         /\ queries' = IF IsOk(r) THEN [queries EXCEPT ![q] = "open"] ELSE queries
         /\ handle' = IF IsOk(r) THEN [handle EXCEPT ![q] = q] ELSE handle
         /\ qryOp' = [op |-> "open_query", q |-> q, h |-> "NULL", c |-> "-",
                      calls |-> open_query_calls(answer), result |-> Some(r),
                      dead |-> {}]
    /\ UNCHANGED <<heldCounters, closeCount, removeCount>>
    /\ UNCHANGED <<svcVars, codecVars, catVars, enumVars, strmVars,
                   bindVars, utilVars, httpVars>>

\* let counter = query.add_counter_utf16(path)
QAddCounter(q, c) ==
    /\ queries[q] = "open"
    /\ heldCounters[c].state = "none"
    /\ heldCounters[c].attachedTo = "-"
    /\ \E validateStatus \in ValidateAnswers, addStatus \in AddAnswers(handle[q]) :
         LET r == add_counter_utf16(validateStatus, addStatus)
             calls == add_counter_calls(handle[q], validateStatus, addStatus)
             attachedNow == \E n \in 1..Len(calls) :
                               calls[n].fn = "PdhAddCounterW" /\ calls[n].status = ERROR_SUCCESS
         IN
         /\ heldCounters' = [heldCounters EXCEPT ![c] =
                           [state |-> IF IsOk(r) THEN "free" ELSE "none",
                            attachedTo |-> IF attachedNow THEN handle[q] ELSE "-",
                            streamOf |-> "-",
                            sampled |-> FALSE]]
         /\ qryOp' = [op |-> "add_counter", q |-> q, h |-> handle[q], c |-> c,
                      calls |-> calls, result |-> Some(r), dead |-> DeadHandles(calls)]
    /\ UNCHANGED <<queries, handle, closeCount, removeCount>>
    /\ UNCHANGED <<svcVars, codecVars, catVars, enumVars, strmVars,
                   bindVars, utilVars, httpVars>>

\* let stream = query.get_value_stream_from_handle(counter): the counter
\* moves into a CounterStream that borrows `query`; no check that the
\* counter belongs to this query, no subsystem call.
QStreamFromHandle(q, c) ==
    /\ queries[q] = "open"
    /\ heldCounters[c].state = "free"
    /\ heldCounters' = [heldCounters EXCEPT ![c].state = "stream", ![c].streamOf = q]
    /\ qryOp' = [op |-> "get_value_stream_from_handle", q |-> q, h |-> handle[q], c |-> c,
                 calls |-> <<>>, result |-> Some(Ok("stream")), dead |-> {}]
    /\ UNCHANGED <<queries, handle, closeCount, removeCount>>
    /\ UNCHANGED <<svcVars, codecVars, catVars, enumVars, strmVars,
                   bindVars, utilVars, httpVars>>

\* self.collect_data(counter, format) on the PdhQuery q: the calls go to
\* the handle it holds.
Collect(opname, q, c) ==
    \E collectStatus \in CollectAnswers(handle[q]) :
      LET after == IF collectStatus = ERROR_SUCCESS THEN Refreshed(handle[q])
                   ELSE heldCounters IN
      \E formatStatus \in FormatAnswers(c, after[c].sampled), v \in Values :
        LET calls == collect_calls(handle[q], c, collectStatus, formatStatus) IN
        /\ heldCounters' = after
        /\ qryOp' = [op |-> opname, q |-> q, h |-> handle[q], c |-> c,
                     calls |-> calls,
                     result |-> Some(collect_data(collectStatus, formatStatus, v)),
                     dead |-> DeadHandles(calls)]

\* query.collect_long_data(&counter) and its two siblings: any query that
\* is alive, any counter held directly.
QCollect(q, c) ==
    /\ queries[q] = "open"
    /\ heldCounters[c].state = "free"
    /\ Collect("collect", q, c)
    /\ UNCHANGED <<queries, handle, closeCount, removeCount>>
    /\ UNCHANGED <<svcVars, codecVars, catVars, enumVars, strmVars,
                   bindVars, utilVars, httpVars>>

\* stream.next(): self.query_handle.collect_*_data(&self.counter_handle)
QNext(c) ==
    /\ heldCounters[c].state = "stream"
    /\ Collect("next", heldCounters[c].streamOf, c)
    /\ UNCHANGED <<queries, handle, closeCount, removeCount>>
    /\ UNCHANGED <<svcVars, codecVars, catVars, enumVars, strmVars,
                   bindVars, utilVars, httpVars>>

\* The PdhCounter goes out of scope: directly, inside its CounterStream, or
\* consumed by remove_counter.
QDropCounter(c) ==
    /\ Held(c)
    /\ LET calls == drop_counter_calls(c) IN
       /\ removeCount' = [removeCount EXCEPT ![c] = @ + Len(calls)]
       /\ qryOp' = [op |-> "drop_counter", q |-> "-", h |-> heldCounters[c].attachedTo,
                    c |-> c,
                    calls |-> calls, result |-> None, dead |-> DeadHandles(calls)]
    /\ heldCounters' = [heldCounters EXCEPT ![c].state = "removed", ![c].sampled = FALSE]
    /\ UNCHANGED <<queries, handle, closeCount>>
    /\ UNCHANGED <<svcVars, codecVars, catVars, enumVars, strmVars,
                   bindVars, utilVars, httpVars>>

\* *query.query() = h: pub fn query(&mut self) -> &mut HQuery hands out the
\* handle field of a PdhQuery that nothing borrows, and safe code can store
\* into it a null handle or a handle copied out of any PdhQuery before (an
\* HQuery is a raw pointer, hence Copy).  No subsystem call is made.
Borrowed(q) ==
    \E c \in CounterIds : heldCounters[c].state = "stream" /\ heldCounters[c].streamOf = q
QSetHandle(q, h) ==
    /\ queries[q] = "open"
    /\ ~Borrowed(q)
    /\ h \in {"NULL"} \cup {p \in QueryIds : queries[p] # "none"}
    /\ h # handle[q]
    /\ handle' = [handle EXCEPT ![q] = h]
    /\ qryOp' = [op |-> "query", q |-> q, h |-> h, c |-> "-",
                 calls |-> <<>>, result |-> None, dead |-> {}]
    /\ UNCHANGED <<queries, heldCounters, closeCount, removeCount>>
    /\ UNCHANGED <<svcVars, codecVars, catVars, enumVars, strmVars,
                   bindVars, utilVars, httpVars>>

\* The PdhQuery goes out of scope; no CounterStream that borrows it is
\* still alive.
QDropQuery(q) ==
    /\ queries[q] = "open"
    /\ \A c \in CounterIds : ~(heldCounters[c].state = "stream" /\ heldCounters[c].streamOf = q)
    /\ LET calls == drop_query_calls(handle[q]) IN
       /\ closeCount' = [h \in QueryIds |->
                           closeCount[h] + (IF h = handle[q] THEN Len(calls) ELSE 0)]
       /\ qryOp' = [op |-> "drop_query", q |-> q, h |-> handle[q], c |-> "-",
                    calls |-> calls, result |-> None, dead |-> DeadHandles(calls)]
    /\ queries' = [queries EXCEPT ![q] = "closed"]
    /\ UNCHANGED <<handle, heldCounters, removeCount>>
    /\ UNCHANGED <<svcVars, codecVars, catVars, enumVars, strmVars,
                   bindVars, utilVars, httpVars>>

QueryNext ==
    \/ \E q \in QueryIds : QOpen(q)
    \/ \E q \in QueryIds, c \in CounterIds : QAddCounter(q, c)
    \/ \E q \in QueryIds, c \in CounterIds : QStreamFromHandle(q, c)
    \/ \E q \in QueryIds, c \in CounterIds : QCollect(q, c)
    \/ \E c \in CounterIds : QNext(c)
    \/ \E c \in CounterIds : QDropCounter(c)
    \/ \E q \in QueryIds : QDropQuery(q)
    \/ \E q \in QueryIds, h \in QueryIds \cup {"NULL"} : QSetHandle(q, h)

QuerySpec == QueryInit /\ [][QueryNext]_vars

---------------------------------------------------------------------------
(* Claims about queries and counters                                       *)

\* C14: addCounter validates the path before attaching: the attach call is
\* issued only after the validation succeeded; a validation failure returns
\* an error and attaches nothing; an attach failure returns an error and
\* produces no Counter; a Counter is returned only when both succeeded.
C14_ValidateBeforeAttach ==
    (qryOp.op = "add_counter") =>
        LET calls == qryOp.calls
            r == qryOp.result[1]
            c == qryOp.c
        IN
        /\ Len(calls) \in {1, 2}
        /\ calls[1].fn = "PdhValidatePathW"
        /\ \A n \in 1..Len(calls) :
             calls[n].fn = "PdhAddCounterW" => (n = 2 /\ calls[1].status = ERROR_SUCCESS)
        /\ (calls[1].status # ERROR_SUCCESS) =>
             /\ r = Err(calls[1].status)
             /\ Len(calls) = 1
             /\ heldCounters[c].attachedTo = "-"
             /\ heldCounters[c].state = "none"
        /\ (calls[1].status = ERROR_SUCCESS) =>
             /\ Len(calls) = 2
             /\ calls[2] = Call("PdhAddCounterW", handle[qryOp.q], calls[2].status)
             /\ (calls[2].status # ERROR_SUCCESS) =>
                  (r = Err(calls[2].status) /\ heldCounters[c].state = "none")
        /\ IsOk(r) <=> (Len(calls) = 2 /\ calls[1].status = ERROR_SUCCESS
                        /\ calls[2].status = ERROR_SUCCESS)
        /\ IsOk(r) <=> (heldCounters[c].state = "free")
        /\ IsOk(r) => heldCounters[c].attachedTo = handle[qryOp.q]

\* An addCounter whose validation succeeded and whose attach call failed.
C14_Witness ==
    /\ qryOp.op = "add_counter"
    /\ Len(qryOp.calls) = 2
    /\ qryOp.calls[1].status = ERROR_SUCCESS
    /\ qryOp.calls[2].status = PDH_CSTATUS_NO_COUNTER
    /\ qryOp.result = Some(Err(PDH_CSTATUS_NO_COUNTER))
    /\ heldCounters[qryOp.c].state = "none"

---------------------------------------------------------------------------
(* One value stream and the time (lib.rs)                                  *)
(*                                                                         *)
(* A CounterStream<ValueType> built by CounterStream::new, optionally      *)
(* given a delay by with_delay, and read by next().  The subsystem's two   *)
(* answers and the value are chosen freely; thread::sleep(d) returns after *)
(* d or later.  The stream's own state is valueType and collect_delay.     *)

ValueTypes == {"i32", "i64", "f64"}
Delays == 1..MaxDelay

\* constants.rs: PDH formatting constants
PDH_FMT_DOUBLE == 512
PDH_FMT_LONG == 256
PDH_FMT_LARGE == 1024

StreamCall(fn, format, duration, answer) ==
    [fn |-> fn, format |-> format, duration |-> duration, status |-> answer]

\* Every read asks for the i32 format.
AlwaysLongFormat(vt) == PDH_FMT_LONG

\* The format each collect_*_data passes to collect_data; next() of a
\* CounterStream<i32> calls collect_long_data, <i64> collect_large_data,
\* <f64> collect_double_data.
CollectFormat(vt) ==
    CASE vt = "i32" -> PDH_FMT_LONG
      [] vt = "i64" -> PDH_FMT_LARGE
      [] OTHER -> PDH_FMT_DOUBLE

\* The union accessor each collect_*_data reads.
Accessor(vt) ==
    CASE vt = "i32" -> "longValue"
      [] vt = "i64" -> "largeValue"
      [] OTHER -> "doubleValue"

\* The member of PDH_FMT_COUNTERVALUE.u the subsystem fills for a format.
MemberWritten(format) ==
    CASE format = PDH_FMT_LONG -> "longValue"
      [] format = PDH_FMT_LARGE -> "largeValue"
      [] OTHER -> "doubleValue"

\* PDH_FMT_COUNTERVALUE_u is a union of an i32, an i64 and an f64 in the
\* same eight bytes.  Its storage is given as four 16-bit words, the least
\* significant first (the layout of the targets of the PDH: little endian).
RECURSIVE Pow2(_)
Pow2(n) == IF n = 0 THEN 1 ELSE 2 * Pow2(n - 1)
RECURSIVE Log2(_)
Log2(a) == IF a <= 1 THEN 0 ELSE 1 + Log2(a \div 2)

\* The words of the f64 that equals the integer n, for |n| < 2^21: sign,
\* biased exponent and the top bits of the fraction (the rest are zero).
DoubleWords(n) ==
    IF n = 0 THEN <<0, 0, 0, 0>>
    ELSE LET a == IF n < 0 THEN -n ELSE n
             e == Log2(a)
             fraction == (a - Pow2(e)) * Pow2(20 - e)
         IN <<0, 0, fraction % 65536,
              (IF n < 0 THEN 32768 ELSE 0) + (1023 + e) * 16 + fraction \div 65536>>

\* The storage after the subsystem filled one member of the union that
\* std::mem::zeroed had cleared: the i32 takes the low four bytes, the i64
\* (two's complement) and the f64 all eight.
UnionWords(u) ==
    CASE u.member = "longValue" ->
           <<u.val % 65536, (u.val \div 65536) % 65536, 0, 0>>
      [] u.member = "largeValue" ->
           <<u.val % 65536, (u.val \div 65536) % 65536,
             IF u.val < 0 THEN 65535 ELSE 0, IF u.val < 0 THEN 65535 ELSE 0>>
      [] OTHER -> DoubleWords(u.val)

\* A value that is not one of the model's integers (an i64 beyond 32 bits,
\* an f64 that is not a small integer) is given by the words that hold it.
Unnamed(words) == [words |-> words]

\* The number an accessor of the union yields from the storage.
NumberOf(member, w) ==
    LET low == IF w[2] < 32768 THEN w[2] * 65536 + w[1]
               ELSE (w[2] - 65536) * 65536 + w[1]
        e == (w[4] % 32768) \div 16 - 1023
        fraction == (w[4] % 16) * 65536 + w[3]
    IN
    CASE member = "longValue" -> low
      [] member = "largeValue" ->
           IF \/ w[3] = 0 /\ w[4] = 0 /\ w[2] < 32768
              \/ w[3] = 65535 /\ w[4] = 65535 /\ w[2] >= 32768
           THEN low ELSE Unnamed(w)
      [] OTHER ->
           IF w = <<0, 0, 0, 0>> THEN 0
           ELSE IF /\ w[1] = 0 /\ w[2] = 0 /\ e \in 0..20
                   /\ fraction % Pow2(20 - e) = 0
           THEN (IF w[4] >= 32768 THEN -1 ELSE 1)
                * (Pow2(e) + fraction \div Pow2(20 - e))
           ELSE Unnamed(w)

\* *fmt_counter_value.u.longValue() and siblings: the accessor reads the
\* union's storage as its own type, whichever member the subsystem filled.
ReadMember(u, member) ==
    [variant |-> member, val |-> NumberOf(member, UnionWords(u))]

\* collect_long_data / collect_large_data / collect_double_data
collect_typed_data(vt, collectStatus, formatStatus, v) ==
    LET r == collect_data(collectStatus, formatStatus,
                          [member |-> MemberWritten(CollectFormat(vt)), val |-> v])
    IN IF IsOk(r) THEN Ok(ReadMember(r.val, Accessor(vt))) ELSE r

\* A next() that never sleeps.
NextWithoutSleep(vt, delay, collectStatus, formatStatus) ==
    <<StreamCall("PdhCollectQueryData", 0, 0, collectStatus)>>
    \o (IF collectStatus # ERROR_SUCCESS THEN <<>>
        ELSE <<StreamCall("PdhGetFormattedCounterValue", CollectFormat(vt), 0, formatStatus)>>)

\* CounterStream::next: what it calls, in order.
next_calls(vt, delay, collectStatus, formatStatus) ==
    (IF delay # None THEN <<StreamCall("sleep", 0, delay[1], "-")>> ELSE <<>>)
    \o <<StreamCall("PdhCollectQueryData", 0, 0, collectStatus)>>
    \o (IF collectStatus # ERROR_SUCCESS THEN <<>>
        ELSE <<StreamCall("PdhGetFormattedCounterValue", CollectFormat(vt), 0, formatStatus)>>)

\* Time asked for by the sleeps among the calls.
RECURSIVE SleepTotal(_)
SleepTotal(calls) ==
    IF Len(calls) = 0 THEN 0
    ELSE Head(calls).duration + SleepTotal(Tail(calls))

\* CounterStream::new(query, counter): collect_delay: None
StreamInit ==
    /\ valueType \in ValueTypes
    /\ collect_delay = None
    /\ clock = 0
    /\ lastNext = None
    /\ prevNext = None
    /\ SvcIdle
    /\ CodecIdle
    /\ CatalogIdle
    /\ EnumIdle
    /\ QueryIdle
    /\ BindingIdle
    /\ StreamModeIdle
    /\ ServeIdle

\* stream.with_delay(d)
StreamWithDelay(d) ==
    /\ collect_delay' = Some(d)
    /\ UNCHANGED <<valueType, clock, lastNext, prevNext>>
    /\ UNCHANGED <<svcVars, codecVars, catVars, enumVars, qryVars,
                   bindVars, utilVars, httpVars>>

\* stream.next()
StreamNext ==
    \E collectStatus \in {ERROR_SUCCESS, PDH_NO_DATA},
       formatStatus \in {ERROR_SUCCESS, PDH_INVALID_DATA},
       v \in Values, late \in {0, 1} :
      LET calls == next_calls(valueType, collect_delay, collectStatus, formatStatus)
          asleep == IF SleepTotal(calls) = 0 THEN 0 ELSE SleepTotal(calls) + late
          r == collect_typed_data(valueType, collectStatus, formatStatus, v)
      IN
      /\ clock + asleep <= MaxClock
      /\ clock' = clock + asleep
      /\ lastNext' = Some([calls |-> calls, result |-> r, delay |-> collect_delay,
                           start |-> clock, end |-> clock + asleep])
      /\ prevNext' = IF lastNext = None THEN None
                     ELSE Some([ok |-> IsOk(lastNext[1].result), end |-> lastNext[1].end])
      /\ UNCHANGED <<valueType, collect_delay>>
      /\ UNCHANGED <<svcVars, codecVars, catVars, enumVars, qryVars,
                   bindVars, utilVars, httpVars>>

\* The caller does something else for a while.
TimePasses ==
    /\ clock < MaxClock
    /\ clock' = clock + 1
    /\ UNCHANGED <<valueType, collect_delay, lastNext, prevNext>>
    /\ UNCHANGED <<svcVars, codecVars, catVars, enumVars, qryVars,
                   bindVars, utilVars, httpVars>>

StreamStep ==
    \/ \E d \in Delays : StreamWithDelay(d)
    \/ StreamNext
    \/ TimePasses

StreamSpec == StreamInit /\ [][StreamStep]_vars

---------------------------------------------------------------------------
(* Claims about value streams                                              *)

\* The subsystem calls among the calls of a next().
SubsystemCalls(calls) == SelectSeq(calls, LAMBDA k : k.fn # "sleep")

\* C15: an error from next() leaves no failed state behind: every next(),
\* whatever the one before it returned, performs a fresh collect and
\* returns a value whenever the subsystem calls of that collect succeed.
C15_NoErrorState ==
    (lastNext # None) =>
        LET issued == SubsystemCalls(lastNext[1].calls) IN
        /\ Len(issued) >= 1
        /\ issued[1].fn = "PdhCollectQueryData"
        /\ (\A n \in 1..Len(issued) : issued[n].status = ERROR_SUCCESS)
             => (Len(issued) = 2 /\ IsOk(lastNext[1].result))

\* A next() returned a value right after a next() of the same stream had
\* returned an error.
C15_Witness ==
    /\ lastNext # None
    /\ prevNext # None
    /\ ~prevNext[1].ok
    /\ IsOk(lastNext[1].result)

\* The numeric format and the variant the caller asked for.
RequestedFormat ==
    CASE valueType = "i32" -> 256
      [] valueType = "i64" -> 1024
      [] valueType = "f64" -> 512
RequestedVariant ==
    CASE valueType = "i32" -> "longValue"
      [] valueType = "i64" -> "largeValue"
      [] valueType = "f64" -> "doubleValue"

\* C16: each collect issues exactly one snapshot refresh and then, only if
\* it succeeded, exactly one formatted-value request in the requested
\* format, and returns the requested variant; when either call fails the
\* result is an error with that call's status.
C16_CollectCalls ==
    (lastNext # None) =>
        LET issued == SubsystemCalls(lastNext[1].calls)
            r == lastNext[1].result
        IN
        /\ Len(issued) \in {1, 2}
        /\ issued[1].fn = "PdhCollectQueryData"
        /\ (Len(issued) = 2) <=> (issued[1].status = ERROR_SUCCESS)
        /\ (issued[1].status # ERROR_SUCCESS) => r = Err(issued[1].status)
        /\ (Len(issued) = 2) =>
             /\ issued[2].fn = "PdhGetFormattedCounterValue"
             /\ issued[2].format = RequestedFormat
             /\ (issued[2].status # ERROR_SUCCESS) => r = Err(issued[2].status)
             /\ (issued[2].status = ERROR_SUCCESS) =>
                  (IsOk(r) /\ r.val.variant = RequestedVariant /\ r.val.val \in Values)

\* An Int64 read whose refresh and request both succeeded.
C16_Witness ==
    /\ lastNext # None
    /\ valueType = "i64"
    /\ Len(SubsystemCalls(lastNext[1].calls)) = 2
    /\ IsOk(lastNext[1].result)
    /\ lastNext[1].result.val = [variant |-> "largeValue", val |-> 2]

\* C17: without a delay next() issues its collect without suspending the
\* caller; with a delay D it suspends the caller for D before the collect,
\* so that two consecutive returns of next() are at least D apart.
C17_DelayBeforeCollect ==
    (lastNext # None) =>
        LET n == lastNext[1] IN
        IF n.delay = None
        THEN /\ \A k \in 1..Len(n.calls) : n.calls[k].fn # "sleep"
             /\ n.end = n.start
        ELSE /\ n.calls[1] = StreamCall("sleep", 0, n.delay[1], "-")
             /\ n.calls[2].fn = "PdhCollectQueryData"
             /\ \A k \in 2..Len(n.calls) : n.calls[k].fn # "sleep"
             /\ n.end - n.start >= n.delay[1]
             /\ (prevNext # None) => (n.end - prevNext[1].end >= n.delay[1])

\* Two next() calls of a stream with the longest delay, the second exactly
\* that delay after the first.
C17_Witness ==
    /\ lastNext # None
    /\ prevNext # None
    /\ lastNext[1].delay = Some(MaxDelay)
    /\ lastNext[1].end - prevNext[1].end = MaxDelay

---------------------------------------------------------------------------
(* Claims about the lifetime of handles                                    *)

\* C18: every query handle obtained by a successful open is closed exactly
\* once, when its PdhQuery goes out of scope, and no add-counter or collect
\* call is issued on a query handle after it has been closed.  (The handle
\* the open of the PdhQuery q produced is named q.)
C18_QueryClosedOnce ==
    /\ \A q \in QueryIds : closeCount[q] = (IF queries[q] = "closed" THEN 1 ELSE 0)
    /\ (qryOp.op = "drop_query") => qryOp.calls = <<Call("PdhCloseQuery", qryOp.q, "unchecked")>>
    /\ \A n \in 1..Len(qryOp.calls) :
         /\ (qryOp.calls[n].fn = "PdhCloseQuery" /\ qryOp.calls[n].h \in QueryIds)
              => qryOp.op = "drop_query"
         /\ (qryOp.calls[n].fn \in {"PdhAddCounterW", "PdhCollectQueryData"})
              => (qryOp.calls[n].h \in QueryIds /\ qryOp.calls[n].h \notin qryOp.dead)

\* C19: every counter handle produced by addCounter is removed exactly
\* once, when its PdhCounter (or the stream holding it) goes out of scope,
\* always before the query handle it was attached to is closed; no counter
\* is used after its query is closed.
C19_CounterRemovedBeforeClose ==
    /\ \A c \in CounterIds :
         removeCount[c] = (IF heldCounters[c].state = "removed" THEN 1 ELSE 0)
    /\ \A c \in CounterIds :
         Held(c) => HandleState(heldCounters[c].attachedTo) = "open"
    /\ \A n \in 1..Len(qryOp.calls) :
         (qryOp.calls[n].fn \in {"PdhRemoveCounter", "PdhGetFormattedCounterValue"})
           => qryOp.calls[n].h \notin qryOp.dead

\* C20: a stream built by get_value_stream_from_handle on one query from a
\* counter attached to another query returns an error from every next(),
\* whatever else is done on that other query.
C20_ForeignCounterAlwaysFails ==
    (/\ qryOp.op = "next"
     /\ qryOp.h = qryOp.q
     /\ HandleState(qryOp.h) = "open"
     /\ heldCounters[qryOp.c].attachedTo \in QueryIds \ {qryOp.q})
        => ~IsOk(qryOp.result[1])

\* C30: PdhCloseQuery is called only with a handle that a successful
\* PdhOpenQueryW produced; an open_query that fails makes no close call.
C30_CloseOnlyOpenedHandles ==
    /\ \A n \in 1..Len(qryOp.calls) :
         qryOp.calls[n].fn = "PdhCloseQuery" => qryOp.calls[n].h \in QueryIds
    /\ (qryOp.op = "open_query" /\ ~IsOk(qryOp.result[1]))
         => \A n \in 1..Len(qryOp.calls) : qryOp.calls[n].fn # "PdhCloseQuery"

---------------------------------------------------------------------------
(* Claims about failures of the catalog walk                               *)

\* The k-th enumerate_items_utf16 call of the walk failed with a status
\* other than PDH_CSTATUS_NO_OBJECT.
FatalAt(k) ==
    /\ ~IsOk(walkLog[k])
    /\ walkLog[k].status # PDH_CSTATUS_NO_OBJECT

\* C26: when enumerate_items_utf16 fails for an object with a status other
\* than PDH_CSTATUS_NO_OBJECT, enumerate_counters makes no further call and
\* returns Err of that status, not the paths gathered so far; when
\* enumerate_objects_utf16 fails, enumerate_counters returns its Err without
\* having called enumerate_items_utf16 at all.
C26_FatalStatusEndsWalk ==
    /\ \A k \in 1..Len(walkLog) :
         FatalAt(k) =>
            /\ k = Len(walkLog)
            /\ k = widx
            /\ wpc = "returned"
            /\ walkResult = Some(Err(walkLog[k].status))
    /\ (walkResult # None /\ ~IsOk(walkResult[1])) =>
         \/ Len(walkLog) >= 1 /\ FatalAt(Len(walkLog))
         \/ walkLog = <<>> /\ objList = <<>> /\ widx = 1

\* A walk gathered paths from its first object and was then ended by a
\* fatal status on the second.
C26_Witness ==
    /\ Len(walkLog) = 2
    /\ IsOk(walkLog[1])
    /\ Len(counter_path_vec) > 0
    /\ FatalAt(2)
    /\ walkResult = Some(Err(PDH_INVALID_ARGUMENT))

---------------------------------------------------------------------------
(* Claims about the collector's tick                                       *)

\* One step of the collection loop: a poll of stream cidx, which is the
\* next in order after the ones already polled on this tick, followed by
\* the next stream or, after the last one, by the sleep; the sleep is
\* left only for the first stream of a new tick.
TickStep ==
    /\ (cpc = "poll" /\ <<cpc, cidx>>' # <<cpc, cidx>>) =>
          /\ Len(tickRes) = cidx - 1
          /\ Len(tickRes') = cidx
          /\ IF cidx < NumStreams
             THEN cpc' = "poll" /\ cidx' = cidx + 1
             ELSE cpc' = "sleep"
    /\ (cpc = "sleep" /\ cpc' # "sleep") =>
          /\ Len(tickRes) = NumStreams
          /\ cpc' = "poll"
          /\ cidx' = 1
          /\ tickRes' = <<>>

\* The collector thread by itself, scheduled whenever it can take a step,
\* with control events arriving at any time; the responder, which writes
\* nothing the collector reads, is left out.
CollectorNext ==
    \/ ServiceControl
    \/ CollectorOpen
    \/ CollectorAdd
    \/ CollectorPoll
    \/ CollectorWake
CollectorSpec == Init /\ [][CollectorNext]_vars /\ WF_vars(Collector)

\* C27: on every tick each stream's next() is called exactly once, in the
\* fixed order of the loop body, before the collector sleeps; a failed
\* read neither ends the tick early nor keeps later ticks from happening:
\* from every point of the loop the sleep is reached, and from every sleep
\* the start of a further tick.
C27_EveryTickPollsAll ==
    /\ [][TickStep]_vars
    /\ (cpc = "poll") ~> (cpc = "sleep" /\ Len(tickRes) = NumStreams)
    /\ (cpc = "sleep") ~> (cpc = "poll" /\ cidx = 1 /\ tickRes = <<>>)

\* A later tick has ended with all streams polled although its first read
\* failed.
C27_Witness ==
    /\ cpc = "sleep"
    /\ Len(tickRes) = NumStreams
    /\ ~IsOk(tickRes[1])
    /\ tickStart # NoValues

---------------------------------------------------------------------------
(* Gauge bindings: parse_instance (binding.rs)                             *)

\* Characters of the paths handed to parse_instance: the two parentheses,
\* two letters, and the line break (U+000A), which the regex . does not
\* match.
LineBreak == "\n"
PathChars == {"(", ")", "a", "b", LineBreak}
PathTexts == SeqsUpTo(PathChars, MaxPathLen)

Max(S) == CHOOSE x \in S : \A y \in S : y <= x
Min(S) == CHOOSE x \in S : \A y \in S : x <= y

Positions(text, ch) == {k \in 1..Len(text) : text[k] = ch}

\* The characters from..to of the text are all matched by the regex "." :
\* every character but the line break.
Dots(text, from, to) == \A k \in from..to : text[k] # LineBreak

\* .*\((.*)\) matches from position s with its "(" at position i and its
\* ")" at position j.
MatchAt(text, s, i, j) ==
    /\ s <= i
    /\ i < j
    /\ text[i] = "("
    /\ text[j] = ")"
    /\ Dots(text, s, i - 1)
    /\ Dots(text, i + 1, j - 1)

\* The starts of a match, and for a start the "(" a match can have.
MatchStarts(text) ==
    {s \in 1..Len(text) : \E i, j \in 1..Len(text) : MatchAt(text, s, i, j)}
MatchOpens(text, s) ==
    {i \in 1..Len(text) : \E j \in 1..Len(text) : MatchAt(text, s, i, j)}

\* The same search with both .* giving up as early as they can.
LazyCaptures(text) ==
    IF MatchStarts(text) = {} THEN None
    ELSE LET s == Min(MatchStarts(text))
             i == Min(MatchOpens(text, s))
             j == Min({k \in 1..Len(text) : MatchAt(text, s, i, k)})
         IN Some(SubSeq(text, i + 1, j - 1))

\* Regex::captures for the pattern .*\((.*)\) : the search takes the
\* leftmost start at which the pattern matches; both .* are greedy, so the
\* first runs up to the last "(" it can reach that still has a match after
\* it, and the group runs up to the last ")" it can reach.  Some(text of
\* group 1), or None when nothing matches.
captures(text) ==
    IF MatchStarts(text) = {} THEN None
    ELSE LET s == Min(MatchStarts(text))
             i == Max(MatchOpens(text, s))
             j == Max({k \in 1..Len(text) : MatchAt(text, s, i, k)})
         IN Some(SubSeq(text, i + 1, j - 1))

\* parse_instance: group 1 of the match, or String::new().
parse_instance(path) ==
    IF captures(path) # None THEN captures(path)[1] ELSE <<>>

\* ---- failure reports of the setup ----

\* format!("{}", s) of the u32 behind each status (constants.rs:25-35,
\* winerror.h, pdhmsg.h).
Decimal(s) ==
    CASE s = ERROR_SUCCESS -> "0"
      [] s = PDH_MORE_DATA -> "2147485650"
      [] s = PDH_NO_DATA -> "2147485653"
      [] s = PDH_CSTATUS_NO_OBJECT -> "3221228472"
      [] s = PDH_CSTATUS_NO_COUNTER -> "3221228473"
      [] s = PDH_INVALID_HANDLE -> "3221228476"
      [] s = PDH_INVALID_ARGUMENT -> "3221228477"
      [] s = PDH_CSTATUS_BAD_COUNTERNAME -> "3221228480"
      [] s = PDH_INVALID_DATA -> "3221228486"

\* The statuses pdh_status_friendly_name has a match arm for, among those
\* of this model.
NamedStatuses ==
    {PDH_CSTATUS_NO_OBJECT, PDH_MORE_DATA, PDH_INVALID_ARGUMENT, PDH_INVALID_DATA,
     PDH_INVALID_HANDLE, PDH_CSTATUS_NO_COUNTER, PDH_CSTATUS_BAD_COUNTERNAME}

\* pdh_status_friendly_name: the name of the constant for the statuses it
\* matches, the decimal number for every other.
pdh_status_friendly_name(s) ==
    IF s \in NamedStatuses THEN s ELSE Decimal(s)

CPU_TOTAL_PCT == "\\Processor Information(_Total)\\% Processor Time"
MEM_AVAILABLE_BYTES == "\\Memory\\Available Bytes"
SetupPaths == {CPU_TOTAL_PCT, MEM_AVAILABLE_BYTES}
\* The line of main.rs on which the stream of each path is unwrapped.
UnwrapLine(path) == IF path = CPU_TOTAL_PCT THEN 228 ELSE 240

SetupValidateAnswers == {ERROR_SUCCESS, PDH_CSTATUS_BAD_COUNTERNAME, PDH_NO_DATA}
SetupAddAnswers == {ERROR_SUCCESS, PDH_CSTATUS_NO_COUNTER, PDH_NO_DATA}

\* anyhow::Error::msg(text), and the Results that carry it.
AnyhowErr(msg) == [tag |-> "Err", msg |-> msg]

\* Result::unwrap on Err(e): the thread panics with this message, e shown
\* with {:?} (a u32: its decimal digits), at the place of the unwrap.  (The
\* message is given without its quotation marks.)
unwrap_failed(e, line) ==
    [tag |-> "panic",
     msg |-> <<"called Result::unwrap() on an Err value: ", Decimal(e)>>,
     location |-> [file |-> "src\\main.rs", line |-> line]]

\* win_service_wrapper, per configured path:
\*   let s = get_value_stream::<f64>(&query, PATH).unwrap();
main_get_value_stream(path, validateStatus, addStatus) ==
    LET r == add_counter_utf16(validateStatus, addStatus) IN
    IF IsOk(r) THEN r ELSE unwrap_failed(r.status, UnwrapLine(path))

\* build_metric_pair, its last step:
\*   get_value_stream::<f64>(query, path)
\*       .map_err(|s| anyhow::Error::msg(pdh_status_friendly_name(s)))?
binding_get_value_stream(path, validateStatus, addStatus) ==
    LET r == add_counter_utf16(validateStatus, addStatus) IN
    IF IsOk(r) THEN r ELSE AnyhowErr(<<pdh_status_friendly_name(r.status)>>)

\* ---- register_wildcard_pairs ----

\* The concrete paths an expansion can deliver, as texts.
ExpandedPath(instance) == <<"\\", "N", "(", instance, ")", "\\", "B">>
ExpandedPaths == {ExpandedPath("a"), ExpandedPath("b")}
\* The one text the decoder delivers when the subsystem wrote no path: the
\* list is never empty (null_separated_to_vec), it holds one empty text.
NoPathText == <<>>
\* What expand_counter_path_string can return: a list of distinct paths,
\* the list of the one empty text when the expansion delivered no path, or
\* the Err of the probe or of the fill.
Expansions ==
    {Ok(paths) : paths \in {ps \in SeqsUpTo(ExpandedPaths, MaxExpanded) :
                               /\ Len(ps) >= 1
                               /\ \A i, j \in 1..Len(ps) : i # j => ps[i] # ps[j]}}
    \cup {Ok(<<NoPathText>>)}
    \cup {Err(PDH_MORE_DATA), Err(PDH_INVALID_ARGUMENT)}
GaugeNames == {"net_rcvd", "net_sent"}

\* GaugeVec::new(Opts::new(name, help), label_names): the descriptor of the
\* gauge family; it has no child until with(..) is called on it.  The
\* prometheus crate refuses a descriptor with an empty help text
\* (Error::Msg); the names of this model are valid metric and label names.
GaugeVec(name, help, label_names) ==
    IF Len(help) = 0 THEN AnyhowErr(<<"Error: ", "empty help string">>)
    ELSE Ok([fq_name |-> name, help |-> help, label_names |-> label_names])

\* prometheus Registry::register: a collector whose descriptor has the
\* name (and constant labels: none here) of one already registered is
\* refused with Error::AlreadyReg; otherwise it is added.
register(reg, gauge) ==
    IF \E k \in 1..Len(reg) : reg[k].fq_name = gauge.fq_name
    THEN AnyhowErr(<<"Duplicate metrics collector registration attempted">>)
    ELSE Ok(Append(reg, gauge))

\* The loop over the expanded paths of one pair: parse the instance, make
\* the gauge (`?`), register it (`?`), attach the counter (`?`); each `?`
\* leaves at the first Err.
RECURSIVE ExpandedLoop(_, _, _, _, _)
ExpandedLoop(name, expanded_paths, bad, reg, pairs) ==
    IF Len(expanded_paths) = 0 THEN [registry |-> reg, result |-> Ok(pairs)]
    ELSE LET expanded == Head(expanded_paths)
             instance == parse_instance(expanded)
             made == GaugeVec(name, expanded, <<"instance">>)
             registered == register(reg, made.val)
             stream == binding_get_value_stream(expanded,
                           IF expanded \in bad THEN PDH_CSTATUS_BAD_COUNTERNAME
                           ELSE ERROR_SUCCESS, ERROR_SUCCESS)
         IN
         IF ~IsOk(made) THEN [registry |-> reg, result |-> made]
         ELSE IF ~IsOk(registered) THEN [registry |-> reg, result |-> registered]
         ELSE IF ~IsOk(stream) THEN [registry |-> registered.val, result |-> stream]
         ELSE ExpandedLoop(name, Tail(expanded_paths), bad, registered.val,
                           Append(pairs, [name |-> name, gauge |-> made.val,
                                          label |-> <<"instance", instance>>,
                                          stream |-> expanded]))

\* register_wildcard_pairs: for each (name, path) pair the expansion of the
\* path, then the loop over what it delivered.
RECURSIVE register_wildcard_pairs(_, _, _, _)
register_wildcard_pairs(name_path_pairs, bad, reg, pairs) ==
    IF Len(name_path_pairs) = 0 THEN [registry |-> reg, result |-> Ok(pairs)]
    ELSE LET pair == Head(name_path_pairs) IN
         IF ~IsOk(pair.expansion)
         THEN [registry |-> reg,
               result |-> AnyhowErr(<<pdh_status_friendly_name(pair.expansion.status)>>)]
         ELSE LET done == ExpandedLoop(pair.name, pair.expansion.val, bad, reg, pairs) IN
              IF ~IsOk(done.result) THEN done
              ELSE register_wildcard_pairs(Tail(name_path_pairs), bad, done.registry,
                                           done.result.val)

\* The argument lists: one or two pairs of distinct names, each with what
\* its expansion will return.
WildcardPairLists ==
    {pairs \in SeqsUpTo([name : GaugeNames, expansion : Expansions], 2) :
        /\ Len(pairs) >= 1
        /\ \A i, j \in 1..Len(pairs) : i # j => pairs[i].name # pairs[j].name}

\* The query handle of the CounterToPrometheus.
BindingQuery == "query"

\* build_metric_pair with the gauge registered only after the counter has
\* been attached.
AttachBeforeRegister(name, path, validateStatus, addStatus, reg, counter) ==
    LET made == GaugeVec(name, path, <<>>)
        stream == binding_get_value_stream(path, validateStatus, addStatus)
        calls == add_counter_calls(BindingQuery, validateStatus, addStatus)
        registered == register(reg, made.val)
    IN
    IF ~IsOk(made) THEN [registry |-> reg, result |-> made, calls |-> <<>>]
    ELSE IF ~IsOk(stream) THEN [registry |-> reg, result |-> stream, calls |-> calls]
    ELSE IF ~IsOk(registered)
    THEN [registry |-> reg, result |-> registered,
          calls |-> calls \o drop_counter_calls(counter)]
    ELSE [registry |-> registered.val,
          result |-> Ok([name |-> name, gauge |-> made.val, stream |-> counter]),
          calls |-> calls]

\* build_metric_pair: make the gauge (`?`), register a clone of it (`?`), then
\* attach the counter of the path to the query (`?`, the status turned into
\* its friendly name).  `counter` is the handle the attach call produces.
\* The result comes with the registry and the subsystem calls made.
build_metric_pair(name, path, validateStatus, addStatus, reg, counter) ==
    LET made == GaugeVec(name, path, <<>>)
        registered == register(reg, made.val)
        stream == binding_get_value_stream(path, validateStatus, addStatus)
        calls == add_counter_calls(BindingQuery, validateStatus, addStatus)
    IN
    IF ~IsOk(made) THEN [registry |-> reg, result |-> made, calls |-> <<>>]
    ELSE IF ~IsOk(registered) THEN [registry |-> reg, result |-> registered, calls |-> <<>>]
    ELSE IF ~IsOk(stream)
    THEN [registry |-> registered.val, result |-> stream, calls |-> calls]
    ELSE [registry |-> registered.val,
          result |-> Ok([name |-> name, gauge |-> made.val, stream |-> counter]),
          calls |-> calls]

\* Dropping the Vec of pairs: each element is dropped in order, and with it
\* its CounterStream and the PdhCounter inside (Drop for PdhCounter).
RECURSIVE drop_pairs(_)
drop_pairs(pairs) ==
    IF Len(pairs) = 0 THEN <<>>
    ELSE drop_counter_calls(Head(pairs).stream) \o drop_pairs(Tail(pairs))

\* register_pairs: for (name, path) in name_path_pairs { let pair =
\* build_metric_pair(..)?; pairs.push(pair); } Ok(pairs).  The `?` returns
\* the Err and drops the local `pairs`; the i-th pair's counter is handle i.
RECURSIVE register_pairs(_, _, _, _, _)
register_pairs(name_path_pairs, i, reg, pairs, calls) ==
    IF i > Len(name_path_pairs)
    THEN [registry |-> reg, result |-> Ok(pairs), calls |-> calls]
    ELSE LET p == name_path_pairs[i]
             built == build_metric_pair(p.name, p.path, p.validateStatus, p.addStatus,
                                        reg, i)
         IN
         IF ~IsOk(built.result)
         THEN [registry |-> built.registry, result |-> built.result,
               calls |-> calls \o built.calls \o drop_pairs(pairs)]
         ELSE register_pairs(name_path_pairs, i + 1, built.registry,
                             Append(pairs, built.result.val), calls \o built.calls)

\* The names of the gauges, and what the subsystem answers to the validation
\* and to the attachment of a pair's path.
PairNames == GaugeNames \cup {"cpu_total_pct"}
AttachAnswers == {<<ERROR_SUCCESS, ERROR_SUCCESS>>,
                  <<PDH_CSTATUS_BAD_COUNTERNAME, ERROR_SUCCESS>>,
                  <<ERROR_SUCCESS, PDH_CSTATUS_NO_COUNTER>>}
\* The argument lists of register_pairs: up to MaxPairs pairs; a name may
\* occur twice.
PairLists ==
    SeqsUpTo({[name |-> n, path |-> pa, validateStatus |-> a[1], addStatus |-> a[2]] :
                 n \in PairNames, pa \in SetupPaths, a \in AttachAnswers}, MaxPairs)

BindingInit ==
    /\ \/ /\ bop = "register_pairs"
          /\ \E pairs \in PairLists : barg = [name_path_pairs |-> pairs]
       \/ /\ bop = "parse_instance"
          /\ \E path \in PathTexts : barg = [path |-> path]
       \/ /\ bop = "register_wildcard_pairs"
          /\ \E pairs \in WildcardPairLists,
                bad \in SUBSET (ExpandedPaths \cup {NoPathText}) :
               barg = [name_path_pairs |-> pairs, bad |-> bad]
       \/ /\ bop = "setup"
          /\ \E caller \in {"win_service_wrapper", "build_metric_pair"},
                path \in SetupPaths,
                vs \in SetupValidateAnswers, as \in SetupAddAnswers :
               barg = [caller |-> caller, path |-> path,
                       validateStatus |-> vs, addStatus |-> as]
    /\ breg = <<>>
    /\ bres = None
    /\ bcalls = <<>>
    /\ SvcIdle
    /\ CodecIdle
    /\ CatalogIdle
    /\ EnumIdle
    /\ QueryIdle
    /\ StreamIdle
    /\ StreamModeIdle
    /\ ServeIdle

\* let instance = parse_instance(&expanded);
ParseInstance ==
    /\ bop = "parse_instance"
    /\ bres = None
    /\ bres' = Some(parse_instance(barg.path))
    /\ UNCHANGED <<bop, barg, breg, bcalls>>
    /\ UNCHANGED <<svcVars, codecVars, catVars, enumVars, qryVars, strmVars,
                   utilVars, httpVars>>

\* The setup of one stream, by the service or by build_metric_pair.
Setup ==
    /\ bop = "setup"
    /\ bres = None
    /\ bres' = Some(IF barg.caller = "win_service_wrapper"
                    THEN main_get_value_stream(barg.path, barg.validateStatus,
                                               barg.addStatus)
                    ELSE binding_get_value_stream(barg.path, barg.validateStatus,
                                                  barg.addStatus))
    /\ UNCHANGED <<bop, barg, breg, bcalls>>
    /\ UNCHANGED <<svcVars, codecVars, catVars, enumVars, qryVars, strmVars,
                   utilVars, httpVars>>

\* binding.register_wildcard_pairs(name_path_pairs) on an empty registry
RegisterWildcardPairs ==
    /\ bop = "register_wildcard_pairs"
    /\ bres = None
    /\ LET done == register_wildcard_pairs(barg.name_path_pairs, barg.bad, breg, <<>>) IN
       /\ breg' = done.registry
       /\ bres' = Some(done.result)
    /\ UNCHANGED <<bop, barg, bcalls>>
    /\ UNCHANGED <<svcVars, codecVars, catVars, enumVars, qryVars, strmVars,
                   utilVars, httpVars>>

\* binding.register_pairs(name_path_pairs) on an empty registry
RegisterPairs ==
    /\ bop = "register_pairs"
    /\ bres = None
    /\ LET done == register_pairs(barg.name_path_pairs, 1, breg, <<>>, <<>>) IN
       /\ breg' = done.registry
       /\ bres' = Some(done.result)
       /\ bcalls' = done.calls
    /\ UNCHANGED <<bop, barg>>
    /\ UNCHANGED <<svcVars, codecVars, catVars, enumVars, qryVars, strmVars,
                   utilVars, httpVars>>

BindingNext ==
    \/ RegisterPairs
    \/ ParseInstance
    \/ RegisterWildcardPairs
    \/ Setup

BindingSpec == BindingInit /\ [][BindingNext]_vars

---------------------------------------------------------------------------
(* Claims about parse_instance                                             *)

Count(text, ch, from, to) == Cardinality({k \in from..to : text[k] = ch})

\* The ")" that closes the "(" at position i: the first one after it with
\* as many "(" as ")" in between; 0 when there is none.
ClosingOf(text, i) ==
    LET cands == {j \in (i + 1)..Len(text) :
                    /\ text[j] = ")"
                    /\ Count(text, "(", i + 1, j - 1) = Count(text, ")", i + 1, j - 1)}
    IN IF cands = {} THEN 0 ELSE Min(cands)

\* The parenthesized groups of a text, each named by the position of its
\* "(", and the content of the first and of the last of them.
Groups(text) == {i \in Positions(text, "(") : ClosingOf(text, i) # 0}
GroupContent(text, i) == SubSeq(text, i + 1, ClosingOf(text, i) - 1)
LastGroupContent(text) ==
    IF Groups(text) = {} THEN <<>> ELSE GroupContent(text, Max(Groups(text)))
FirstGroupContent(text) ==
    IF Groups(text) = {} THEN <<>> ELSE GroupContent(text, Min(Groups(text)))

\* The parentheses of the text, read alone, are ()()..(): no group lies
\* within another and no parenthesis is without its partner.
Flat(text) ==
    LET parens == SelectSeq(text, LAMBDA ch : ch \in {"(", ")"}) IN
    /\ Len(parens) % 2 = 0
    /\ \A k \in 1..Len(parens) : parens[k] = (IF k % 2 = 1 THEN "(" ELSE ")")

\* C29 as stated: parse_instance returns the content of the last
\* parenthesized group of the path, the text between the last opening
\* parenthesis and its closing parenthesis, and the empty string when the
\* path has no parenthesized group.
C29_LastGroup ==
    (bop = "parse_instance" /\ bres # None) =>
        bres[1] = LastGroupContent(barg.path)

\* The line of the text a position lies on: the line breaks before it.
LineOf(text, k) == Cardinality({n \in 1..(k - 1) : text[n] = LineBreak})

\* The pairs of a "(" and a later ")" on the same line of the text.
PairsOnALine(text) ==
    {p \in Positions(text, "(") \X Positions(text, ")") :
        p[1] < p[2] /\ LineOf(text, p[1]) = LineOf(text, p[2])}

\* C29 amended: parse_instance returns the empty string when no line of
\* the path has a "(" with a ")" after it on that line; otherwise it takes
\* the first line that has, and returns the text between the last "(" of
\* that line that has a ")" after it on the line and the last ")" of that
\* line, a text that holds no "(" and no line break but may hold ")".  For
\* a path without line breaks whose parentheses are ()()..() that text is
\* the content of the last group, not the first.
C29_LastOpenToLastClose ==
    (bop = "parse_instance" /\ bres # None) =>
        LET path == barg.path
            got == bres[1]
            pairs == PairsOnALine(path)
        IN
        /\ (Flat(path) /\ Positions(path, LineBreak) = {})
              => got = LastGroupContent(path)
        /\ (pairs = {}) => got = <<>>
        /\ (pairs # {}) =>
              \E p \in pairs :
                 /\ \A q \in pairs :
                      /\ LineOf(path, p[1]) <= LineOf(path, q[1])
                      /\ LineOf(path, p[1]) = LineOf(path, q[1])
                            => (q[1] <= p[1] /\ q[2] <= p[2])
                 /\ got = SubSeq(path, p[1] + 1, p[2] - 1)
                 /\ Positions(got, "(") = {}
                 /\ Positions(got, LineBreak) = {}

\* parse_instance was given (a)(b) and returned b.
C29_Witness ==
    /\ bop = "parse_instance"
    /\ barg.path = <<"(", "a", ")", "(", "b", ")">>
    /\ FirstGroupContent(barg.path) = <<"a">>
    /\ bres = Some(<<"b">>)

---------------------------------------------------------------------------
(* Claims about the failure reports of the setup                           *)

\* The status a setup fails with: the validation's, or else the attach's.
FailingStatus(arg) ==
    IF arg.validateStatus # ERROR_SUCCESS THEN arg.validateStatus ELSE arg.addStatus

\* C25: when the setup of a stream fails because its path cannot be
\* validated or attached, the failure reported names the path and gives the
\* status, by its symbolic name when pdh_status_friendly_name has one and
\* as the decimal number otherwise.
C25_FailureNamesPathAndStatus ==
    (bop = "setup" /\ bres # None /\ ~IsOk(bres[1])) =>
        /\ barg.path \in Range(bres[1].msg)
        /\ pdh_status_friendly_name(FailingStatus(barg)) \in Range(bres[1].msg)

---------------------------------------------------------------------------
(* Claims about the registry's entries                                     *)

\* All the concrete paths the expansions of the pairs delivered, in order.
RECURSIVE AllExpanded(_)
AllExpanded(pairs) ==
    IF Len(pairs) = 0 THEN <<>>
    ELSE Head(pairs).expansion.val \o AllExpanded(Tail(pairs))

\* The subsystem served the whole setup: every expansion returned a list
\* of concrete paths (none of them the empty text of an expansion that
\* delivered nothing) and every expanded path could be attached.
SubsystemServed(arg) ==
    /\ \A k \in 1..Len(arg.name_path_pairs) : IsOk(arg.name_path_pairs[k].expansion)
    /\ \A k \in 1..Len(arg.name_path_pairs) :
         /\ Range(arg.name_path_pairs[k].expansion.val) \cap arg.bad = {}
         /\ NoPathText \notin Range(arg.name_path_pairs[k].expansion.val)

\* C23: the startup creates one registry entry per configured counter, for
\* a wildcard path one per concrete path of its expansion, each carrying
\* the instance parsed from its path as its instance label.
C23_OneEntryPerExpandedPath ==
    (bop = "register_wildcard_pairs" /\ bres # None /\ SubsystemServed(barg)) =>
        LET paths == AllExpanded(barg.name_path_pairs) IN
        /\ IsOk(bres[1])
        /\ Len(breg) = Len(paths)
        /\ Len(bres[1].val) = Len(paths)
        /\ \A k \in 1..Len(paths) :
             /\ breg[k].help = paths[k]
             /\ bres[1].val[k].label = <<"instance", parse_instance(paths[k])>>

---------------------------------------------------------------------------
(* perf-util --stream (perf-util/src/main.rs)                              *)

\* The path given with --stream.
StreamArg == CPU_TOTAL_PCT

\* What iterator.next() of the CounterStream<i32> can return.
ReadResults == {Ok(v) : v \in Values} \cup {Err(PDH_INVALID_DATA), Err(PDH_NO_DATA)}

\* The match in the loop: println!("{}\t{}", path, v) on Ok(v),
\* eprintln!("Err: {}", pdh_status_friendly_name(s)) on Err(s).  `read` is
\* history: the number of the read the line belongs to.
SilentOnErr(out, path, r, n) ==
    IF IsOk(r)
    THEN Append(out, [channel |-> "stdout", text |-> <<path, "\t", r.val>>, read |-> n])
    ELSE out
loop_output(out, path, r, n) ==
    IF IsOk(r)
    THEN Append(out, [channel |-> "stdout", text |-> <<path, "\t", r.val>>, read |-> n])
    ELSE Append(out, [channel |-> "stderr",
                      text |-> <<"Err: ", pdh_status_friendly_name(r.status)>>,
                      read |-> n])

StreamModeInit ==
    /\ upc = "open"
    /\ ureads = <<>>
    /\ uout = <<>>
    /\ SvcIdle
    /\ CodecIdle
    /\ CatalogIdle
    /\ EnumIdle
    /\ QueryIdle
    /\ StreamIdle
    /\ BindingIdle
    /\ ServeIdle

\* pdh.open_query().map_err(..).unwrap()
StreamModeOpen ==
    /\ upc = "open"
    /\ \E st \in {ERROR_SUCCESS, PDH_INVALID_ARGUMENT} :
         upc' = IF IsOk(open_query(st)) THEN "attach" ELSE "panicked"
    /\ UNCHANGED <<ureads, uout>>
    /\ UNCHANGED <<svcVars, codecVars, catVars, enumVars, qryVars, strmVars,
                   bindVars, httpVars>>

\* query.get_value_stream_from_path(path).map_err(..).unwrap().with_delay(..)
StreamModeAttach ==
    /\ upc = "attach"
    /\ \E vs \in SetupValidateAnswers, as \in SetupAddAnswers :
         upc' = IF IsOk(add_counter_utf16(vs, as)) THEN "first" ELSE "panicked"
    /\ UNCHANGED <<ureads, uout>>
    /\ UNCHANGED <<svcVars, codecVars, catVars, enumVars, qryVars, strmVars,
                   bindVars, httpVars>>

\* let _ = iterator.next();
StreamModeFirst ==
    /\ upc = "first"
    /\ \E r \in ReadResults : ureads' = Append(ureads, r)
    /\ upc' = "loop"
    /\ UNCHANGED uout
    /\ UNCHANGED <<svcVars, codecVars, catVars, enumVars, qryVars, strmVars,
                   bindVars, httpVars>>

\* loop { match iterator.next() { Ok(v) => println!(..), Err(s) => eprintln!(..) } }
StreamModeLoop ==
    /\ upc = "loop"
    /\ Len(ureads) < MaxReads
    /\ \E r \in ReadResults :
         /\ ureads' = Append(ureads, r)
         /\ uout' = loop_output(uout, StreamArg, r, Len(ureads) + 1)
    /\ UNCHANGED upc
    /\ UNCHANGED <<svcVars, codecVars, catVars, enumVars, qryVars, strmVars,
                   bindVars, httpVars>>

StreamModeNext ==
    \/ StreamModeOpen
    \/ StreamModeAttach
    \/ StreamModeFirst
    \/ StreamModeLoop

StreamModeSpec == StreamModeInit /\ [][StreamModeNext]_vars

---------------------------------------------------------------------------
(* Claims about perf-util --stream                                         *)

OkReads == {k \in 1..Len(ureads) : IsOk(ureads[k])}

\* C28 as stated: the first successful read of the counter is never
\* printed.
C28_FirstSuccessNotPrinted ==
    OkReads # {} =>
        ~\E n \in 1..Len(uout) :
            uout[n].channel = "stdout" /\ uout[n].read = Min(OkReads)

\* C28 amended: the first read, whether it succeeded or failed, is
\* discarded without a line on either channel; every later read has its
\* line, in order: a successful one is printed with the path and the
\* value, a failed one is reported with the name of its status; and after
\* any read the loop goes on to the next.
C28_FirstReadDiscarded ==
    /\ upc \in {"open", "attach", "first", "panicked"} => (ureads = <<>> /\ uout = <<>>)
    /\ upc = "loop" =>
         /\ Len(ureads) >= 1
         /\ Len(uout) = Len(ureads) - 1
         /\ \A n \in 1..Len(uout) :
              /\ uout[n].read = n + 1
              /\ IF IsOk(ureads[n + 1])
                 THEN /\ uout[n].channel = "stdout"
                      /\ uout[n].text = <<StreamArg, "\t", ureads[n + 1].val>>
                 ELSE /\ uout[n].channel = "stderr"
                      /\ uout[n].text
                           = <<"Err: ", pdh_status_friendly_name(ureads[n + 1].status)>>
         /\ (Len(ureads) < MaxReads) => ENABLED StreamModeLoop

\* The first read failed and was passed over in silence; the second, the
\* first successful one, was printed, and the failure after it reported.
C28_Witness ==
    /\ upc = "loop"
    /\ Len(ureads) >= 3
    /\ ~IsOk(ureads[1])
    /\ IsOk(ureads[2])
    /\ ~IsOk(ureads[3])
    /\ uout[1].channel = "stdout"
    /\ uout[2].channel = "stderr"

---------------------------------------------------------------------------
(* Serving the registry while the collector writes it (main.rs)            *)

Gauges == 1..NumGauges
Methods == {"GET", "POST"}
Urls == {"/metrics", "/"}

\* The registry once win_service_wrapper has registered its gauges, the
\* collector has set up its streams and the server is bound: no gauge has
\* a child yet, the collector is at the head of its loop and the responder
\* waits in server.recv().
ServeInit ==
    /\ gauges = [g \in Gauges |-> None]
    /\ returned = [g \in Gauges |-> {}]
    /\ pdhUsers = {}
    /\ kpc = "poll"
    /\ kidx = 1
    /\ kval = None
    /\ hpc = "recv"
    /\ request = None
    /\ metric_families = <<>>
    /\ response = None
    /\ errlog = <<>>
    /\ SvcIdle
    /\ CodecIdle
    /\ CatalogIdle
    /\ EnumIdle
    /\ QueryIdle
    /\ StreamIdle
    /\ BindingIdle
    /\ StreamModeIdle

\* ---- collector thread ----

\* Where the collector of ServeSpec goes once stream i is dealt with.
AfterStream(i) ==
    [pc |-> IF i < NumGauges THEN "poll" ELSE "sleep",
     idx |-> IF i < NumGauges THEN i + 1 ELSE 1]

\* The value of a gauge's child when with(..) creates it.
NewChildValue == 0

\* gauge.with(&labels!{}): the child for the (empty) label set, created
\* with the value 0 when the gauge has none yet.
with_labels(reg, i) ==
    IF reg[i] = None THEN [reg EXCEPT ![i] = Some(NewChildValue)] ELSE reg

\* if let Ok(v) = stream.next() { .. } for stream kidx: the read goes to the
\* subsystem through the stream; an Err goes on to the next stream.
ServePoll ==
    /\ kpc = "poll"
    /\ \E cs \in {ERROR_SUCCESS, PDH_INVALID_DATA},
          fs \in {ERROR_SUCCESS, PDH_INVALID_DATA},
          v \in Values :
         LET r == collect_data(cs, fs, v) IN
         IF IsOk(r)
         THEN /\ returned' = [returned EXCEPT ![kidx] = @ \cup {r.val}]
              /\ kval' = Some(r.val)
              /\ kpc' = "with"
              /\ kidx' = kidx
         ELSE /\ returned' = returned
              /\ kval' = None
              /\ kpc' = AfterStream(kidx).pc
              /\ kidx' = AfterStream(kidx).idx
    /\ pdhUsers' = pdhUsers \cup {"collector"}
    /\ UNCHANGED <<gauges, hpc, request, metric_families, response, errlog>>
    /\ UNCHANGED <<svcVars, codecVars, catVars, enumVars, qryVars, strmVars,
                   bindVars, utilVars>>

\* gauge.with(&prometheus::labels! {}) : the first of the two calls on the
\* gauge.  Nothing of the repository keeps the responder's gather() from
\* running between it and the set.
ServeWith ==
    /\ kpc = "with"
    /\ gauges' = with_labels(gauges, kidx)
    /\ kpc' = "set"
    /\ UNCHANGED <<returned, pdhUsers, kidx, kval, hpc, request, metric_families,
                   response, errlog>>
    /\ UNCHANGED <<svcVars, codecVars, catVars, enumVars, qryVars, strmVars,
                   bindVars, utilVars>>

\* .set(v as f64): one atomic store into the child.
ServeSet ==
    /\ kpc = "set"
    /\ gauges' = SetGauge(gauges, kidx, Ok(kval[1]))
    /\ kval' = None
    /\ kpc' = AfterStream(kidx).pc
    /\ kidx' = AfterStream(kidx).idx
    /\ UNCHANGED <<returned, pdhUsers, hpc, request, metric_families, response, errlog>>
    /\ UNCHANGED <<svcVars, codecVars, catVars, enumVars, qryVars, strmVars,
                   bindVars, utilVars>>

\* std::thread::sleep(..) returns and the loop starts over.
ServeWake ==
    /\ kpc = "sleep"
    /\ kpc' = "poll"
    /\ UNCHANGED <<gauges, returned, pdhUsers, kidx, kval, hpc, request, metric_families,
                   response, errlog>>
    /\ UNCHANGED <<svcVars, codecVars, catVars, enumVars, qryVars, strmVars,
                   bindVars, utilVars>>

\* ---- responder thread ----

\* server.recv(): Ok(req) for a request of any method and url, or Err(e),
\* which is logged.  errlog holds what has been logged since the last
\* return of recv.
ServeRecv ==
    /\ hpc = "recv"
    /\ \/ /\ \E m \in Methods, u \in Urls : request' = Some([method |-> m, url |-> u])
          /\ hpc' = "gather"
          /\ errlog' = <<>>
       \/ /\ request' = None
          /\ hpc' = "recv"
          /\ errlog' = <<"Invalid http request!">>
    /\ metric_families' = <<>>
    /\ response' = None
    /\ UNCHANGED <<gauges, returned, pdhUsers, kpc, kidx, kval>>
    /\ UNCHANGED <<svcVars, codecVars, catVars, enumVars, qryVars, strmVars,
                   bindVars, utilVars>>

\* registry.gather() visits the registered gauges in turn and loads the
\* value of each one's child; it stores nothing.  The result is what was
\* read and the registry as the read leaves it.
GatherAndReset(reg, k) ==
    [read |-> reg[k], registry |-> [reg EXCEPT ![k] = None]]
gather_one(reg, k) ==
    [read |-> reg[k], registry |-> reg]

\* One gauge of registry.gather().
ServeGather ==
    /\ hpc = "gather"
    /\ LET k == Len(metric_families) + 1
           got == gather_one(gauges, k)
       IN
       /\ metric_families' = Append(metric_families, got.read)
       /\ gauges' = got.registry
       /\ hpc' = IF k < NumGauges THEN "gather" ELSE "encode"
    /\ UNCHANGED <<returned, pdhUsers, kpc, kidx, kval, request, response, errlog>>
    /\ UNCHANGED <<svcVars, codecVars, catVars, enumVars, qryVars, strmVars,
                   bindVars, utilVars>>

\* TextEncoder::encode: one sample line per gauge that has a child, with
\* the gauge's place in the registry for its name; a gauge without a child
\* has no line.
RECURSIVE EncodeFrom(_, _)
EncodeFrom(mfs, k) ==
    IF k > Len(mfs) THEN <<>>
    ELSE (IF mfs[k] = None THEN <<>> ELSE <<[gauge |-> k, value |-> mfs[k][1]]>>)
         \o EncodeFrom(mfs, k + 1)
encode(mfs) == EncodeFrom(mfs, 1)

\* encoder.encode(&metric_families, &mut buffer).unwrap(), then
\* Response::from_data(buffer).with_status_code(200) and req.respond, whose
\* Err is logged.  A failed encode panics the thread in the unwrap.
ServeRespond ==
    /\ hpc = "encode"
    /\ \E encoded \in BOOLEAN, sent \in BOOLEAN :
         IF encoded
         THEN /\ response' = Some([status_code |-> 200, data |-> encode(metric_families),
                                   sent |-> sent])
              /\ errlog' = IF sent THEN errlog
                           ELSE Append(errlog, "Error responding to request")
              /\ hpc' = "recv"
         ELSE /\ response' = None
              /\ errlog' = errlog
              /\ hpc' = "panicked"
    /\ UNCHANGED <<gauges, returned, pdhUsers, kpc, kidx, kval, request, metric_families>>
    /\ UNCHANGED <<svcVars, codecVars, catVars, enumVars, qryVars, strmVars,
                   bindVars, utilVars>>

ServeNext ==
    \/ ServePoll
    \/ ServeWith
    \/ ServeSet
    \/ ServeWake
    \/ ServeRecv
    \/ ServeGather
    \/ ServeRespond

ServeSpec == ServeInit /\ [][ServeNext]_vars

---------------------------------------------------------------------------
(* Claims about serving the registry                                       *)

\* The values gauge g can hold: the one its child is created with, and the
\* ones successful next() calls of its stream have returned so far.
InitialOrReturned(g) == {NewChildValue} \cup returned[g]

\* C21: however the collector's writes and the responder's reads fall,
\* each value the responder has read, and each value in a response, is the
\* gauge's initial state (no child, hence no line in the response, or the
\* child as it is created, before the first store into it) or a value that
\* an earlier successful next() of that gauge's stream returned.  A read is
\* of one whole stored value; a gauge holds a child only once a next() of
\* its stream has succeeded.
C21_ServedValuesWereRead ==
    /\ \A k \in 1..Len(metric_families) :
         metric_families[k] # None =>
            (metric_families[k][1] \in InitialOrReturned(k) /\ returned[k] # {})
    /\ response # None =>
         \A n \in 1..Len(response[1].data) :
            /\ response[1].data[n].gauge \in Gauges
            /\ response[1].data[n].value \in InitialOrReturned(response[1].data[n].gauge)
            /\ returned[response[1].data[n].gauge] # {}
    /\ \A g \in Gauges :
         /\ gauges[g] # None => (gauges[g][1] \in InitialOrReturned(g) /\ returned[g] # {})
         \* outside the two calls of a write the gauge holds a returned value
         /\ (gauges[g] # None /\ ~(kpc = "set" /\ kidx = g)) => gauges[g][1] \in returned[g]

\* A response was built while the collector went on writing: it holds for
\* the first gauge the value read before the collector replaced it, and
\* has no line for the second gauge, which got its first value after it
\* was read.
C21_Witness ==
    /\ response # None
    /\ response[1].sent
    /\ Len(response[1].data) = 1
    /\ response[1].data[1].gauge = 1
    /\ gauges[1] # None
    /\ response[1].data[1].value # gauges[1][1]
    /\ gauges[2] # None

\* A step of the responder thread: one that changes what only it writes.
ResponderStepped ==
    <<hpc, request, metric_families, response, errlog>>'
        # <<hpc, request, metric_families, response, errlog>>

\* C22: a step of the responder leaves every gauge's value as it was and
\* calls nothing on the query or the streams; a gauge's value changes only
\* in a step of the collector, and only the collector has called into the
\* query and the streams.
C22_ResponderOnlyReads ==
    /\ [][ResponderStepped => (gauges' = gauges /\ returned' = returned
                                /\ pdhUsers' = pdhUsers)]_vars
    /\ [][(gauges' # gauges) => (kpc \in {"with", "set"} /\ kpc' # kpc)]_vars
    /\ [](pdhUsers \subseteq {"collector"})

\* A request has been handled to its response while every gauge held a
\* value and the collector had been reading.
C22_Witness ==
    /\ hpc = "recv"
    /\ response # None
    /\ response[1].sent
    /\ Len(response[1].data) = NumGauges
    /\ \A g \in Gauges : gauges[g] = Some(response[1].data[g].value)
    /\ pdhUsers = {"collector"}

\* C24: every request that reaches the handler, whatever its method and
\* url, is answered with status 200 and the rendering of all the gauges
\* gathered for it, unless the rendering fails; and when the rendering
\* fails, an error is logged for the request.
C24_AnsweredOrLogged ==
    /\ response # None =>
         /\ request # None
         /\ response[1].status_code = 200
         /\ Len(metric_families) = NumGauges
         /\ response[1].data = encode(metric_families)
    /\ hpc = "panicked" => errlog # <<>>

\* ---------------------------------------------------------------------------
\* Claims about the host the catalog walk enumerates
\* ---------------------------------------------------------------------------

\* C31: for a catalog configured with a host, item enumeration is performed
\* against the same host as object enumeration: every enumeration call the
\* walk makes, PdhEnumObjectsW and PdhEnumObjectItemsW alike, names the
\* configured host, so the paths emitted under the "\\host" prefix are made
\* of items that were listed on that host.
C31_ItemsOnConfiguredHost ==
    \A k \in 1..Len(machineArgs) : machineArgs[k].machine = machine_name

\* ---------------------------------------------------------------------------
\* Claims about objects without instances
\* ---------------------------------------------------------------------------

\* The paths the walk pushed for the k-th visited object.
PathsOfObject(k) ==
    SubSeq(counter_path_vec, PathsBefore(k) + 1, PathsBefore(k + 1))

\* The path of an object and a counter with no instance segment.
PathWithoutInstance(object, counter) ==
    (IF machine_name = None THEN <<>> ELSE <<92, 92>> \o from_utf16_lossy(machine_name[1]))
    \o <<92>> \o from_utf16_lossy(object) \o <<92>> \o from_utf16_lossy(counter)

\* C33: the multi-string decoder never returns an empty sequence: whatever
\* the buffer, a zero-length one included, its result has at least one
\* element.  So the lists of every enumerated object have at least one
\* element each, and an object whose instance buffer is empty has exactly one
\* instance, the empty one: the walk pushes exactly one path per counter for
\* it, in counter order, with no parentheses in it.
C33_DecoderNeverEmpty ==
    \* the decoder on every bounded buffer (a fact about the function: it is
    \* evaluated in the states before the walk)
    /\ (wpc = "start") => \A b \in RawBuffers : Len(null_separated_to_vec(b)) >= 1
    /\ Len(counter_path_vec) = PathsBefore(Len(walkLog) + 1)
    /\ \A k \in 1..Len(walkLog) :
         IsOk(walkLog[k]) =>
            LET insts == walkLog[k].val.instances
                ctrs == walkLog[k].val.counters
            IN
            /\ Len(insts) >= 1
            /\ Len(ctrs) >= 1
            /\ itemBufs[k][1].instance_list = <<>> =>
                  /\ insts = << <<>> >>
                  /\ Len(PathsOfObject(k)) = Len(ctrs)
                  /\ \A c \in 1..Len(ctrs) :
                       /\ PathsOfObject(k)[c] = PathWithoutInstance(objList[k], ctrs[c])
                       /\ 40 \notin Range(PathsOfObject(k)[c])
                       /\ 41 \notin Range(PathsOfObject(k)[c])
    /\ (wpc = "returned" /\ walkResult # None /\ IsOk(walkResult[1])) =>
          walkResult[1].val = counter_path_vec

\* A walk returned the paths of two objects: the first has an instance, the
\* second has two counters and an instance buffer of length zero, and
\* contributes its two paths to the result.
C33_Witness ==
    /\ wpc = "returned"
    /\ walkResult # None
    /\ IsOk(walkResult[1])
    /\ Len(walkLog) = 2
    /\ IsOk(walkLog[1])
    /\ IsOk(walkLog[2])
    /\ itemBufs[1][1].instance_list # <<>>
    /\ itemBufs[2][1].instance_list = <<>>
    /\ Len(walkLog[2].val.counters) = 2
    /\ Len(walkResult[1].val) = PathsBefore(2) + 2

\* ---------------------------------------------------------------------------
\* Claims about a list that grows between the probe and the fill
\* ---------------------------------------------------------------------------

\* The fill call reported a required length larger than the one probed.
GrewAfterProbe ==
    /\ Len(pdhCalls) >= 2
    /\ \E n \in 1..Len(pdhCalls[2].lens_out) :
         pdhCalls[2].lens_out[n] > pdhCalls[1].lens_out[n]

\* C32: when the required size grows between the probe call and the fill
\* call of listObjects, listItems or expandWildcardPath, the operation has
\* returned the fill call's non-success status as an error.  No operation
\* ever makes a third call (the probe is not retried), and a list is returned
\* only when the fill call answered success, and is then the decoding of
\* the whole of what that call wrote: nothing is decoded from a buffer the
\* fill call did not report as filled.
C32_GrowthIsAnError ==
    /\ Len(pdhCalls) <= 2
    /\ (epc = "returned") => ~ENABLED EnumNext
    /\ (Len(pdhCalls) = 2) =>
         LET fill == pdhCalls[2] IN
         /\ epc = "returned"
         /\ enumResult # None
         /\ (fill.status # ERROR_SUCCESS) => enumResult[1] = Err(fill.status)
         /\ GrewAfterProbe =>
               /\ fill.status # ERROR_SUCCESS
               /\ enumResult[1] = Err(fill.status)
         /\ IsOk(enumResult[1]) =>
               /\ fill.status = ERROR_SUCCESS
               /\ ~GrewAfterProbe
               /\ \A n \in 1..Len(fill.data) : Len(fill.data[n]) = pdhCalls[1].lens_out[n]
               /\ enumResult[1].val =
                     IF eop = "items"
                     THEN [counters |-> split(pop(pop(fill.data[1]))),
                           instances |-> split(pop(pop(fill.data[2])))]
                     ELSE split(pop(pop(fill.data[1])))

\* listItems probed the lengths 2 and 1, and the fill call answered
\* PDH_MORE_DATA with a larger instance list length: the operation returned
\* that status.
C32_Witness ==
    /\ eop = "items"
    /\ epc = "returned"
    /\ Len(pdhCalls) = 2
    /\ pdhCalls[1].lens_out = <<2, 1>>
    /\ pdhCalls[2].lens_out = <<2, 3>>
    /\ GrewAfterProbe
    /\ enumResult = Some(Err(PDH_MORE_DATA))

\* ---------------------------------------------------------------------------
\* Claims about register_pairs
\* ---------------------------------------------------------------------------

\* The subsystem refuses the path of pair i.
AttachFailsAt(i) ==
    \/ barg.name_path_pairs[i].validateStatus # ERROR_SUCCESS
    \/ barg.name_path_pairs[i].addStatus # ERROR_SUCCESS

\* The name of pair i is the name of an earlier pair.
NameTakenAt(i) ==
    \E j \in 1..(i - 1) : barg.name_path_pairs[j].name = barg.name_path_pairs[i].name

\* The first pair that cannot be built, 0 when every pair can.
FirstFailure ==
    LET failing == {i \in 1..Len(barg.name_path_pairs) : NameTakenAt(i) \/ AttachFailsAt(i)}
    IN IF failing = {} THEN 0 ELSE Min(failing)

\* The calls of one primitive among the calls made, in order.
CallsOf(fn) == SelectSeq(bcalls, LAMBDA c : c.fn = fn)

\* C34: register_pairs processes the pairs in order and stops at the first
\* failure, returning an error and no streams.  Each gauge is registered
\* before its counter is attached: after an attach failure at pair k the
\* registry holds the gauges of pairs 1..k, the failing pair included (and
\* those of 1..k-1 when it is the registration of pair k that failed), no
\* path after the k-th has been handed to the subsystem, and the counters
\* attached for pairs 1..k-1 have each been removed from the query, once,
\* after the failing call.  Without a failure the streams of all the pairs
\* are returned in order and no counter is removed.
C34_StopsAtFirstFailure ==
    (bop = "register_pairs" /\ bres # None) =>
        LET pairs == barg.name_path_pairs
            k == FirstFailure
            added == CallsOf("PdhAddCounterW")
            taken == CallsOf("PdhRemoveCounter")
        IN
        IF k = 0
        THEN /\ IsOk(bres[1])
             /\ Len(bres[1].val) = Len(pairs)
             /\ \A i \in 1..Len(pairs) :
                  /\ bres[1].val[i].name = pairs[i].name
                  /\ bres[1].val[i].stream = i
                  /\ breg[i].fq_name = pairs[i].name
                  /\ breg[i].help = pairs[i].path
             /\ Len(breg) = Len(pairs)
             /\ Len(added) = Len(pairs)
             /\ taken = <<>>
        ELSE /\ ~IsOk(bres[1])
             /\ Len(breg) = (IF NameTakenAt(k) THEN k - 1 ELSE k)
             /\ \A i \in 1..Len(breg) :
                  /\ breg[i].fq_name = pairs[i].name
                  /\ breg[i].help = pairs[i].path
             /\ Len(CallsOf("PdhValidatePathW")) = (IF NameTakenAt(k) THEN k - 1 ELSE k)
             /\ Len(added) <= k
             /\ \A n \in 1..Len(added) : n < k <=> added[n].status = ERROR_SUCCESS
             /\ Len(taken) = k - 1
             /\ \A n \in 1..(k - 1) : taken[n].h = n
             /\ \A n \in 1..Len(bcalls) :
                  bcalls[n].fn = "PdhRemoveCounter" => n > Len(bcalls) - (k - 1)

\* Three pairs of distinct names were handed in and the attachment of the
\* second failed: the registry holds the first two gauges, the first
\* counter has been removed and the third pair was never looked at.
C34_Witness ==
    /\ bop = "register_pairs"
    /\ bres # None
    /\ Len(barg.name_path_pairs) = 3
    /\ FirstFailure = 2
    /\ ~NameTakenAt(2)
    /\ ~NameTakenAt(3)
    /\ barg.name_path_pairs[2].addStatus # ERROR_SUCCESS
    /\ ~IsOk(bres[1])
    /\ Len(breg) = 2
    /\ breg[2].fq_name = barg.name_path_pairs[2].name
    /\ CallsOf("PdhRemoveCounter") = drop_counter_calls(1)

====
